---- MODULE Spec2Model ----
(***************************************************************************)
(* Model of the reconciliation core of pr-review-server:                   *)
(*   - the store (db/db.go): one row per PR identity and its row-level     *)
(*     writes (UpsertPR, UpdatePRStatus, SetPRGenerating, the resets);     *)
(*   - the poller loop (poller/poller.go): Start, Trigger, startPoll and   *)
(*     the pass Poller.poll with its batches and generator subprocesses;   *)
(*   - the delete handler of the HTTP surface (server/server.go).          *)
(*                                                                         *)
(* Timestamps are kept as ages in whole minutes (now - timestamp),         *)
(* saturated one past the largest cutoff the code compares them with, so   *)
(* "generating_since < now - 2min" reads "age > StaleMinutes".             *)
(* A PR identity (owner, repo, number) is a number of PRIds; the PRs whose  *)
(* review is requested live in one repository, the user's own PRs in       *)
(* another.  The artifact file of a PR has the fixed name                  *)
(* owner_repo_number.html, so file[id] is the content of that one path:    *)
(* 0 when the file does not exist, else the remote head the generator      *)
(* reviewed when it wrote the file (the generator is given the repository  *)
(* and the PR number only, never a commit).                                *)
(***************************************************************************)
EXTENDS Integers, Sequences, FiniteSets, TLC

\* ---- bounds of the model
NumPRs == 2
MaxSha == 2
MaxEvents == 2
MaxTrigCalls == 2
MaxRev == 1
MaxNoteLen == 16
UnitsPerSecond == 2
MaxClock == 12
MaxInterval == 6
NumRequests == 2
MaxRows == 3
MaxCreated == 2
MaxAgeHalfDays == 10
MaxReviews == 5
MaxApprovals == 2
MaxKills == 2
MaxListLen == 7

\* ---- program constants
TriggerCap == 1
TickerCap == 1
StaleMinutes == 2
ErrorMinutes == 5
BatchSize == 5
NotesMax == 15
DefaultPollingSeconds == 60
RateLimitCacheSeconds == 30
MonitorSeconds == 30
SoftSeconds == 120
HardSeconds == 300
LargeAdditions == 500
VeryLargeAdditions == 1000
HighScore == 60
MediumScore == 30
Null == -1

PRIds == 1..NumPRs
Shas == 1..MaxSha
NoRow == [status |-> "none"]
NoCmd == [id |-> 0, sha |-> 0, st |-> "none"]

\* is_mine: the PR is authored by the configured user (returned by GetMyOpenPRs)
IsMine(id) == id % 2 = 0

\* the repository (owner/repo) of a PR
RepoOf(id) == id % 2
Repos == {RepoOf(id) : id \in PRIds}

VARIABLES
  remote,        \* GitHub: [id -> [open, head, draft, rev]], rev standing for the
                 \* PR's reviews (what approval_count and my_review_status are made from)
  db,            \* table prs: [id -> row or NoRow]
  file,          \* reviews dir: [id -> 0 or the head the artifact was made from]
  triggerChan,   \* Poller.triggerChan: number of buffered sends
  tickerC,       \* ticker.C: number of buffered ticks
  pcLoop,        \* position of Poller.Start
  polling,       \* Poller.polling
  passes,        \* number of goroutines executing Poller.poll
  pc,            \* position of the pass inside Poller.poll
  reviewPRs,     \* poll: reviewPRs
  myPRs,         \* poll: myPRs
  allPRs,        \* poll: allPRs (step 8 work list)
  k,             \* poll: index of the step 8 loop
  existing,      \* poll: existingPR read by step 8
  reviewDataMap, \* poll: reviewDataMap, [id -> fetched review data, Null when no key]
  todo,          \* poll: batches still to hand to processPRBatch
  cur,           \* processPRBatch: prsToReview
  idx,           \* generateReviewsBatch: loop index
  outcome,       \* what became of each task of cur (history of this batch)
  cmd,           \* generateReviewsBatch: the exec.Cmd being waited for
  running,       \* OS: [id -> number of live generator processes for id]
  activeReviews, \* Poller.activeReviews: [id -> pid or 0]
  cbprPID,       \* Poller.cbprPID
  resetCount,    \* poll: resetCount, the rows ResetStaleGeneratingPRs reports as reset
  sweep,         \* history of the last sweep (cleanupClosedPRs, checkForOutdatedReviews):
                 \* rows removed or reset, rows whose remote call failed
  fetchOk,       \* history of the last BatchGetPRReviewData: repositories whose query succeeded
  resp,          \* HTTP surface: status code of the last response sent, 0 before any
  notesArg,      \* history: the notes argument of the last UpdatePRNotes call
  clock,         \* time.Now(), in units of 1/UnitsPerSecond second
  pollingInterval, \* cfg.PollingInterval, in the same units
  tickerStartTime, \* Poller.tickerStartTime, Null for the zero time
  seconds,       \* the last result of GetSecondsUntilNextPoll, Null before any call
  askedAt,       \* history: the clock at the last call of GetSecondsUntilNextPoll
  rateLimitCache, \* Server.rateLimitCache: FALSE for nil, TRUE when it holds a value
  cacheAge,      \* time.Since(Server.rateLimitCacheTime) in seconds, while a value is held
  statusPc,      \* position of each status request in Server.handleStatus
  sinceProbe,    \* history: seconds since the last call of GetRateLimitInfo, Null if none
  cbprElapsed,   \* time.Since(Poller.cbprStartTime) at the monitor's last firing, in seconds
  monitorLog,    \* history: what the monitor did at its last firing
  listStore,     \* the rows of a store as GetAllPRs reads them: is_mine, created_at, status
  listing,       \* the ids in the order of a GetAllPRs result, empty before any
  listingB,      \* the same for a second GetAllPRs over the same rows
  scoreIn,       \* what scorePR is given: the PR's row and its details from the remote
  scoreOut,      \* the score and priority of the last scorePR result
  killLog,       \* history of the calls of killReview: identity and returned value
  grpIn,         \* poll, a list of PRs to process: the repository of each PR, by position
  grpLeft,       \* the repositories of the list whose group is still to be processed
  grpCur,        \* processInBatches: the sub-batches of the current group still to run
  grpDone,       \* history: the sub-batches handed to processPRBatch, with its result
  events,        \* number of environment events so far (pushes, closes, deletes, restarts)
  owed,          \* history: Trigger() was called during a pass, no pass started since
  trigCalls      \* history: Trigger() calls since the loop last received from triggerChan

vars == <<remote, db, file, triggerChan, tickerC, pcLoop, polling, passes, pc,
          reviewPRs, myPRs, allPRs, k, existing, reviewDataMap, todo, cur, idx, outcome, cmd,
          running, activeReviews, cbprPID, resetCount, sweep, fetchOk, resp, notesArg, clock,
          pollingInterval, tickerStartTime, seconds, askedAt, rateLimitCache, cacheAge,
          statusPc, sinceProbe, cbprElapsed, monitorLog, listStore, listing, listingB,
          scoreIn, scoreOut, killLog, grpIn, grpLeft, grpCur, grpDone,
          events, owed, trigCalls>>

passVars == <<reviewPRs, myPRs, allPRs, k, existing, reviewDataMap, todo, cur, idx, outcome>>
procVars == <<cmd, running, activeReviews, cbprPID>>
loopVars == <<triggerChan, tickerC, pcLoop, owed, trigCalls>>
healVars == <<resetCount, sweep, fetchOk>>
countdownVars == <<clock, pollingInterval, tickerStartTime, seconds, askedAt>>
cacheVars == <<rateLimitCache, cacheAge, statusPc, sinceProbe>>
Requests == 1..NumRequests
watchVars == <<cbprElapsed, monitorLog>>
listVars == <<listStore, listing, listingB>>
scoreVars == <<scoreIn, scoreOut>>
killVars == <<killLog>>
groupVars == <<grpIn, grpLeft, grpCur, grpDone>>
pureVars == <<listVars, scoreVars, killVars, groupVars>>
httpVars == <<resp, notesArg, countdownVars, cacheVars, watchVars, pureVars>>
NoSweep == [removed |-> {}, failed |-> {}]
NoReviewData == [id \in PRIds |-> Null]

\* ------------------------------------------------------------------ store
Min(a, b) == IF a < b THEN a ELSE b

\* one minute passes for a stored timestamp
AgeBy1(t, cap) == IF t = Null THEN Null ELSE Min(t + 1, cap)

\* db.UpsertPR(pr *PR): INSERT ... ON CONFLICT DO UPDATE
UpsertPR(d, id, pr) ==
  IF d[id] = NoRow
  THEN [d EXCEPT ![id] = [status |-> pr.status, sha |-> pr.sha, path |-> pr.path,
                          lra |-> pr.lra, gs |-> Null,
                          rev |-> pr.rev, draft |-> pr.draft, notes |-> pr.notes]]
  ELSE [d EXCEPT ![id] = [status |-> pr.status, sha |-> pr.sha, path |-> pr.path,
                          lra |-> IF pr.lra # Null THEN pr.lra ELSE d[id].lra,
                          gs |-> Null,
                          rev |-> pr.rev, draft |-> pr.draft, notes |-> pr.notes]]

\* db.UpdatePRStatus: UPDATE prs SET status = ? WHERE identity
UpdatePRStatus(d, id, status) ==
  IF d[id] = NoRow THEN d ELSE [d EXCEPT ![id].status = status]

\* a reset that sets status and head and leaves the three cleared columns as they were
ResetPRStatusAndHead(d, id, newCommitSHA) ==
  IF d[id] = NoRow THEN d
  ELSE [d EXCEPT ![id].status = "pending", ![id].sha = newCommitSHA]

\* db.ResetPRToOutdated
ResetPRToOutdated(d, id, newCommitSHA) ==
  IF d[id] = NoRow THEN d
  ELSE [d EXCEPT ![id] = [status |-> "pending", sha |-> newCommitSHA, path |-> FALSE,
                          lra |-> Null, gs |-> Null,
                          rev |-> d[id].rev, draft |-> d[id].draft, notes |-> d[id].notes]]

\* db.SetPRGenerating: INSERT ... ON CONFLICT DO UPDATE, generating_since = now;
\* the review data columns are not among its columns (0 and NULL in a new row)
SetPRGenerating(d, id, commitSHA, draft) ==
  IF d[id] = NoRow
  THEN [d EXCEPT ![id] = [status |-> "generating", sha |-> commitSHA, path |-> FALSE,
                          lra |-> Null, gs |-> 0,
                          rev |-> 0, draft |-> draft, notes |-> <<>>]]
  ELSE [d EXCEPT ![id] = [status |-> "generating", sha |-> commitSHA, path |-> FALSE,
                          lra |-> d[id].lra, gs |-> 0,
                          rev |-> d[id].rev, draft |-> draft, notes |-> d[id].notes]]

\* a DELETE statement without its WHERE clause
DeleteEveryPR(d, id) == [i \in PRIds |-> NoRow]

\* db.DeletePR
DeletePR(d, id) == [d EXCEPT ![id] = NoRow]

\* a reset whose WHERE clause lacks "generating_since IS NULL OR"
ResetStaleOnlyTimedOut(d, timeoutMinutes) ==
  [id \in PRIds |->
     IF d[id] # NoRow /\ d[id].status = "generating"
        /\ d[id].gs # Null /\ d[id].gs > timeoutMinutes
     THEN [d[id] EXCEPT !.status = "pending", !.gs = Null]
     ELSE d[id]]

\* db.ResetStaleGeneratingPRs(timeoutMinutes)
ResetStaleGeneratingPRs(d, timeoutMinutes) ==
  [id \in PRIds |->
     IF d[id] # NoRow /\ d[id].status = "generating"
        /\ (d[id].gs = Null \/ d[id].gs > timeoutMinutes)
     THEN [d[id] EXCEPT !.status = "pending", !.gs = Null]
     ELSE d[id]]

\* db.ResetStaleGeneratingPRs: the count it returns, result.RowsAffected()
ResetStaleCount(d, timeoutMinutes) ==
  Cardinality({id \in PRIds : ResetStaleGeneratingPRs(d, timeoutMinutes)[id] # d[id]})

\* db.ResetErrorPRs(maxAgeMinutes)
ResetErrorPRs(d, maxAgeMinutes) ==
  [id \in PRIds |->
     IF d[id] # NoRow /\ d[id].status = "error"
        /\ (d[id].lra = Null \/ d[id].lra > maxAgeMinutes)
     THEN [d[id] EXCEPT !.status = "pending"]
     ELSE d[id]]

\* Poller.upsertPRPreservingReviewData: its arguments carry no review time and no
\* notes; the review data is the existing row's, 0 and "" when there is no row
upsertPRPreservingReviewData(d, id, commitSHA, htmlPath, status, draft) ==
  UpsertPR(d, id, [status |-> status, sha |-> commitSHA, path |-> htmlPath, lra |-> Null,
                   rev |-> IF d[id] = NoRow THEN 0 ELSE d[id].rev, draft |-> draft,
                   notes |-> <<>>])

\* a text of n characters
NoteOfLen(n) == [i \in 1..n |-> i]

\* an update that stores the notes it is given
UpdatePRNotesAsGiven(d, id, notes) ==
  IF d[id] = NoRow THEN d ELSE [d EXCEPT ![id].notes = notes]

\* db.UpdatePRNotes: "if len(notes) > 15 { notes = notes[:15] }", then UPDATE prs SET
\* notes = ? WHERE identity
UpdatePRNotes(d, id, notes) ==
  IF d[id] = NoRow THEN d
  ELSE [d EXCEPT ![id].notes = IF Len(notes) > NotesMax THEN SubSeq(notes, 1, NotesMax)
                                ELSE notes]

\* ------------------------------------------------------------------ loop
\* a Trigger whose send always adds to the channel (no default branch, no capacity)
TriggerSendUnbounded(ch) == ch + 1

\* Poller.Trigger: select { case triggerChan <- struct{}{}: ... default: }
TriggerSend(ch) == IF ch < TriggerCap THEN ch + 1 ELSE ch

\* a startPoll that does not look at the polling flag
PollInProgressNever(flag) == FALSE

\* startPoll: "if p.polling { ...skipping...; return }"
PollInProgress(flag) == flag

\* the server starts on an empty store and an empty reviews directory
InitLocal ==
  /\ db = [id \in PRIds |-> NoRow]
  /\ file = [id \in PRIds |-> 0]
  /\ triggerChan = 0
  /\ tickerC = 0
  /\ pcLoop = "initial"
  /\ polling = FALSE
  /\ passes = 0
  /\ pc = "idle"
  /\ reviewPRs = <<>>
  /\ myPRs = <<>>
  /\ allPRs = <<>>
  /\ k = 0
  /\ existing = NoRow
  /\ reviewDataMap = NoReviewData
  /\ todo = <<>>
  /\ cur = <<>>
  /\ idx = 0
  /\ outcome = <<>>
  /\ cmd = NoCmd
  /\ running = [id \in PRIds |-> 0]
  /\ activeReviews = [id \in PRIds |-> 0]
  /\ cbprPID = 0
  /\ killLog = <<>>
  /\ resetCount = 0
  /\ sweep = NoSweep
  /\ fetchOk = {}
  /\ resp = 0
  /\ notesArg = <<>>
  /\ rateLimitCache = FALSE
  /\ cacheAge = 0
  /\ statusPc = [r \in Requests |-> "idle"]
  /\ sinceProbe = Null
  /\ cbprElapsed = 0
  /\ monitorLog = "none"
  /\ events = 0
  /\ owed = FALSE
  /\ trigCalls = 0

\* every PR is open at its first commit, ready for review and not reviewed yet
InitList ==
  /\ listStore = <<>>
  /\ listing = <<>>
  /\ listingB = <<>>

NoScore == [score |-> 0, priority |-> "none"]

InitScore ==
  /\ scoreIn = [ageHalfDays |-> 0, reviewCount |-> 0, approvalCount |-> 0, additions |-> 0,
                requestedMe |-> FALSE, myReviewStatus |-> ""]
  /\ scoreOut = NoScore

InitGroup ==
  /\ grpIn = <<>>
  /\ grpLeft = {}
  /\ grpCur = <<>>
  /\ grpDone = <<>>

InitCountdown ==
  /\ clock = 0
  /\ pollingInterval = DefaultPollingSeconds * UnitsPerSecond
  /\ tickerStartTime = Null
  /\ seconds = Null
  /\ askedAt = Null

Init ==
  /\ remote = [id \in PRIds |-> [open |-> TRUE, head |-> 1, draft |-> FALSE, rev |-> 0]]
  /\ InitLocal
  /\ InitCountdown
  /\ InitList
  /\ InitScore
  /\ InitGroup

\* every PR is open at its first commit and not reviewed yet, a draft or not
InitReview ==
  /\ remote \in [PRIds -> [open : {TRUE}, head : {1}, draft : BOOLEAN, rev : {0}]]
  /\ InitLocal
  /\ InitCountdown
  /\ InitList
  /\ InitScore
  /\ InitGroup

\* Poller.startPoll, as called from Poller.Start
startPoll ==
  IF PollInProgress(polling)
  THEN UNCHANGED <<polling, passes, pc, owed>>
  ELSE /\ polling' = TRUE
       /\ passes' = passes + 1
       /\ pc' = "heal"
       /\ owed' = FALSE

\* Start: "p.startPoll(ctx, "initial")" before the loop
LoopInitial ==
  /\ pcLoop = "initial"
  /\ pcLoop' = "select"
  /\ startPoll
  /\ UNCHANGED <<remote, db, file, triggerChan, tickerC, trigCalls, events>>
  /\ UNCHANGED passVars /\ UNCHANGED procVars
  /\ UNCHANGED healVars
  /\ UNCHANGED httpVars

\* Start: "case tickTime := <-ticker.C"
LoopTicker ==
  /\ pcLoop = "select"
  /\ tickerC > 0
  /\ tickerC' = tickerC - 1
  /\ startPoll
  /\ UNCHANGED <<remote, db, file, triggerChan, pcLoop, trigCalls, events>>
  /\ UNCHANGED passVars /\ UNCHANGED procVars
  /\ UNCHANGED healVars
  /\ UNCHANGED httpVars

\* Start: "case <-p.triggerChan"
LoopManual ==
  /\ pcLoop = "select"
  /\ triggerChan > 0
  /\ triggerChan' = triggerChan - 1
  /\ trigCalls' = 0
  /\ startPoll
  /\ UNCHANGED <<remote, db, file, tickerC, pcLoop, events>>
  /\ UNCHANGED passVars /\ UNCHANGED procVars
  /\ UNCHANGED healVars
  /\ UNCHANGED httpVars

\* the runtime's ticker: a tick is dropped when ticker.C is full
TickerFire ==
  /\ pcLoop # "initial"
  /\ tickerC < TickerCap
  /\ tickerC' = tickerC + 1
  /\ UNCHANGED <<remote, db, file, triggerChan, pcLoop, polling, passes, pc,
                 events, owed, trigCalls>>
  /\ UNCHANGED passVars /\ UNCHANGED procVars
  /\ UNCHANGED healVars
  /\ UNCHANGED httpVars

\* Server.handleDeletePR: the status code of the response
StatusMethodNotAllowed == 405
StatusBadRequest == 400
StatusOK == 200
Methods == {"GET", "POST", "DELETE"}

\* a handler that goes on to delete after it has answered a request it cannot decode
DeleteAllowedAnyBody(method, decodes) == method \in {"POST", "DELETE"}

\* Server.handleDeletePR: the method is POST or DELETE and the body decodes, so the
\* handler goes on to GetPR
DeleteAllowed(method, decodes) == method \in {"POST", "DELETE"} /\ decodes

\* Server.handleDeletePR for one request: method check, body decode, GetPR, remove the
\* artifact, DeletePR, pollTriggerFunc(), response
DeleteRequest(method, decodes, id) ==
  /\ events < MaxEvents
  /\ events' = events + 1
  /\ resp' = IF method \notin {"POST", "DELETE"} THEN StatusMethodNotAllowed
             ELSE IF ~decodes THEN StatusBadRequest
             ELSE StatusOK
  /\ IF DeleteAllowed(method, decodes)
     THEN /\ file' = IF db[id] # NoRow /\ db[id].path THEN [file EXCEPT ![id] = 0] ELSE file
          /\ db' = DeletePR(db, id)
          /\ triggerChan' = TriggerSend(triggerChan)
          /\ trigCalls' = Min(trigCalls + 1, MaxTrigCalls)
          /\ owed' = (owed \/ polling)
     ELSE UNCHANGED <<file, db, triggerChan, trigCalls, owed>>
  /\ UNCHANGED <<remote, tickerC, pcLoop, polling, passes, pc, notesArg, countdownVars, cacheVars, watchVars, pureVars>>
  /\ UNCHANGED passVars /\ UNCHANGED procVars
  /\ UNCHANGED healVars

\* a call of db.UpdatePRNotes for one PR
UpdateNotesCall(id, notes) ==
  /\ events < MaxEvents
  /\ events' = events + 1
  /\ db' = UpdatePRNotes(db, id, notes)
  /\ notesArg' = notes
  /\ UNCHANGED <<remote, file, tickerC, pcLoop, polling, passes, pc, resp, countdownVars, cacheVars, watchVars, pureVars>>
  /\ UNCHANGED <<triggerChan, trigCalls, owed>>
  /\ UNCHANGED passVars /\ UNCHANGED procVars
  /\ UNCHANGED healVars

\* Server.handleDeletePR for a well-formed request
HandleDeletePR(id) == \E method \in {"POST", "DELETE"} : DeleteRequest(method, TRUE, id)

\* ------------------------------------------------------------------ pass
RECURSIVE SeqOfSet(_)
\* the elements of a set of PR numbers, ascending
SeqOfSet(S) ==
  IF S = {} THEN <<>>
  ELSE LET m == CHOOSE x \in S : \A y \in S : x <= y
       IN <<m>> \o SeqOfSet(S \ {m})

\* a github.PullRequest as the pass uses it
Task(id, sha, draft) == [id |-> id, sha |-> sha, draft |-> draft]

TasksOf(S, shaOf, draftOf) ==
  LET q == SeqOfSet(S) IN [i \in 1..Len(q) |-> Task(q[i], shaOf[q[i]], draftOf[q[i]])]

SeqIds(s) == {s[i].id : i \in 1..Len(s)}

RECURSIVE Chunks(_, _)
\* processInBatches: consecutive sub-batches of at most batchSize PRs
Chunks(prs, batchSize) ==
  IF Len(prs) = 0 THEN <<>>
  ELSE LET end == Min(batchSize, Len(prs))
       IN <<SubSeq(prs, 1, end)>> \o Chunks(SubSeq(prs, end + 1, Len(prs)), batchSize)

\* poll: "resetCount, err := p.db.ResetStaleGeneratingPRs(2)"
PollHeal ==
  /\ pc = "heal"
  /\ db' = ResetStaleGeneratingPRs(db, StaleMinutes)
  /\ resetCount' = ResetStaleCount(db, StaleMinutes)
  /\ pc' = "healerr"
  /\ UNCHANGED <<remote, file, polling, passes, sweep, fetchOk, events>>
  /\ UNCHANGED passVars /\ UNCHANGED procVars /\ UNCHANGED loopVars
  /\ UNCHANGED httpVars

\* poll: "errorResetCount, err := p.db.ResetErrorPRs(5)"
PollRetryErrors ==
  /\ pc = "healerr"
  /\ db' = ResetErrorPRs(db, ErrorMinutes)
  /\ pc' = "cleanup"
  /\ UNCHANGED <<remote, file, polling, passes, resetCount, sweep, fetchOk, events>>
  /\ UNCHANGED passVars /\ UNCHANGED procVars /\ UNCHANGED loopVars
  /\ UNCHANGED httpVars

\* a sweep that takes a failed IsPROpen call for the answer "closed"
ClosedRowsOrFailed(d, r, errs) ==
  {id \in PRIds : d[id] # NoRow /\ (id \in errs \/ ~r[id].open)}

\* cleanupClosedPRs: the rows it removes, those whose IsPROpen call succeeds ("if err
\* != nil { continue }") and answers "closed"
ClosedRows(d, r, errs) ==
  {id \in PRIds : d[id] # NoRow /\ id \notin errs /\ ~r[id].open}

\* cleanupClosedPRs: every row whose IsPROpen answers "closed" loses file and row;
\* errs are the rows whose IsPROpen call fails
CleanupClosedPRs ==
  /\ pc = "cleanup"
  /\ \E errs \in SUBSET {id \in PRIds : db[id] # NoRow} :
       LET gone == ClosedRows(db, remote, errs)
       IN /\ file' = [id \in PRIds |-> IF id \in gone /\ db[id].path THEN 0 ELSE file[id]]
          /\ db' = [id \in PRIds |-> IF id \in gone THEN NoRow ELSE db[id]]
          /\ sweep' = [removed |-> gone, failed |-> errs]
  /\ pc' = "outdated"
  /\ UNCHANGED <<remote, polling, passes, resetCount, fetchOk, events>>
  /\ UNCHANGED passVars /\ UNCHANGED procVars /\ UNCHANGED loopVars
  /\ UNCHANGED httpVars

\* killReview: the identities whose tracked process it kills
KillSet(ids) == {id \in ids : activeReviews[id] # 0}

\* checkForOutdatedReviews: rows completed or generating whose remote head moved;
\* errs are the rows whose GetPRHeadSHA call fails
CheckForOutdatedReviews ==
  /\ pc = "outdated"
  /\ \E errs \in SUBSET {id \in PRIds : db[id] # NoRow /\ db[id].status \in {"completed", "generating"}} :
       LET moved == {id \in PRIds : /\ db[id] # NoRow
                                    /\ db[id].status \in {"completed", "generating"}
                                    /\ id \notin errs
                                    /\ remote[id].head # db[id].sha}
           killed == KillSet({id \in moved : db[id].status = "generating"})
       IN /\ file' = [id \in PRIds |-> IF id \in moved /\ db[id].path THEN 0 ELSE file[id]]
          /\ db' = [id \in PRIds |-> IF id \in moved
                                     THEN ResetPRToOutdated(db, id, remote[id].head)[id]
                                     ELSE db[id]]
          /\ activeReviews' = [id \in PRIds |-> IF id \in killed THEN 0 ELSE activeReviews[id]]
          /\ running' = [id \in PRIds |-> IF id \in killed /\ running[id] > 0
                                          THEN running[id] - 1 ELSE running[id]]
          /\ cmd' = IF cmd.id \in killed /\ cmd.st = "running"
                    THEN [cmd EXCEPT !.st = "fail"] ELSE cmd
          /\ sweep' = [removed |-> moved, failed |-> errs]
  /\ pc' = "search"
  /\ UNCHANGED <<remote, polling, passes, cbprPID, resetCount, fetchOk, events>>
  /\ UNCHANGED passVars /\ UNCHANGED loopVars
  /\ UNCHANGED httpVars

\* a batched fetch that reports no reviews for the PRs of a repository whose query
\* failed
BatchGetZeroOnFailure(prs, r, okRepos) ==
  [id \in PRIds |-> IF id \notin SeqIds(prs) THEN Null
                     ELSE IF RepoOf(id) \in okRepos THEN r[id].rev ELSE 0]

\* Client.BatchGetPRReviewData: one query per repository; okRepos are the repositories
\* whose query succeeds, the PRs of the others get no key in the result
BatchGetPRReviewData(prs, r, okRepos) ==
  [id \in PRIds |-> IF id \in SeqIds(prs) /\ RepoOf(id) \in okRepos THEN r[id].rev ELSE Null]

\* poll step 8, "if reviewData, exists := reviewDataMap[key]; exists"
HasReviewData(m, id) == m[id] # Null

\* poll steps 6-8 up to BatchGetPRReviewData: the two searches (each returns some of
\* the open PRs, none when it fails), the union with the store's rows (a PR made from
\* a row has no Draft set), and the batched review fetch
FetchPRs ==
  /\ pc = "search"
  /\ \E R \in SUBSET {id \in PRIds : remote[id].open /\ ~IsMine(id)},
        M \in SUBSET {id \in PRIds : remote[id].open /\ IsMine(id)},
        oks \in SUBSET Repos :
       LET heads == [id \in PRIds |-> remote[id].head]
           drafts == [id \in PRIds |-> remote[id].draft]
           stored == [id \in PRIds |-> IF db[id] = NoRow THEN 0 ELSE db[id].sha]
           unset == [id \in PRIds |-> FALSE]
           rest == {id \in PRIds : db[id] # NoRow /\ id \notin R \cup M}
           all == TasksOf(R, heads, drafts) \o TasksOf(M, heads, drafts)
                    \o TasksOf(rest, stored, unset)
           okRepos == oks \cap {RepoOf(id) : id \in SeqIds(all)}
           got == BatchGetPRReviewData(all, remote, okRepos)
       IN /\ reviewPRs' = TasksOf(R, heads, drafts)
          /\ myPRs' = TasksOf(M, heads, drafts)
          /\ IF got # NoReviewData
             THEN /\ allPRs' = all
                  /\ reviewDataMap' = got
                  /\ fetchOk' = okRepos
                  /\ k' = 1
                  /\ pc' = "reviewdata"
             ELSE /\ allPRs' = <<>>
                  /\ reviewDataMap' = NoReviewData
                  /\ fetchOk' = {}
                  /\ k' = 0
                  /\ pc' = "select"
  /\ UNCHANGED <<remote, db, file, polling, passes, events>>
  /\ UNCHANGED <<existing, todo, cur, idx, outcome>>
  /\ UNCHANGED procVars /\ UNCHANGED loopVars
  /\ sweep' = NoSweep
  /\ UNCHANGED resetCount
  /\ UNCHANGED httpVars

\* poll step 8, "existingPR, err := p.db.GetPR(...)": PRs with no key in reviewDataMap
\* and rows that do not exist are skipped
ReviewDataRead ==
  /\ pc = "reviewdata"
  /\ IF k > Len(allPRs)
     THEN /\ pc' = "select"
          /\ allPRs' = <<>>
          /\ reviewDataMap' = NoReviewData
          /\ fetchOk' = {}
          /\ k' = 0
          /\ UNCHANGED existing
     ELSE IF ~HasReviewData(reviewDataMap, allPRs[k].id) \/ db[allPRs[k].id] = NoRow
          THEN /\ k' = k + 1
               /\ UNCHANGED <<pc, allPRs, existing, reviewDataMap, fetchOk>>
          ELSE /\ existing' = db[allPRs[k].id]
               /\ pc' = "reviewwrite"
               /\ UNCHANGED <<allPRs, k, reviewDataMap, fetchOk>>
  /\ UNCHANGED <<remote, db, file, polling, passes, events>>
  /\ UNCHANGED <<reviewPRs, myPRs, todo, cur, idx, outcome>>
  /\ UNCHANGED procVars /\ UNCHANGED loopVars
  /\ UNCHANGED <<resetCount, sweep>>
  /\ UNCHANGED httpVars

\* poll step 8, "p.db.UpsertPR(..., existingPR.LastCommitSHA, existingPR.ReviewHTMLPath,
\* existingPR.Status, ..., reviewData.ApprovalCount, reviewData.MyReviewStatus, ...,
\* pr.Draft)"
ReviewDataWrite ==
  /\ pc = "reviewwrite"
  /\ db' = UpsertPR(db, allPRs[k].id,
                    [status |-> existing.status, sha |-> existing.sha,
                     path |-> existing.path, lra |-> Null,
                     rev |-> reviewDataMap[allPRs[k].id], draft |-> allPRs[k].draft,
                     notes |-> <<>>])
  /\ existing' = NoRow
  /\ k' = k + 1
  /\ pc' = "reviewdata"
  /\ UNCHANGED <<remote, file, polling, passes, events>>
  /\ UNCHANGED <<reviewPRs, myPRs, allPRs, reviewDataMap, todo, cur, idx, outcome>>
  /\ UNCHANGED procVars /\ UNCHANGED loopVars
  /\ UNCHANGED healVars
  /\ UNCHANGED httpVars

\* poll step 9: the store's pending rows are appended to reviewPRs / myPRs, and the
\* lists are cut into sub-batches (one repository)
SelectTasks ==
  /\ pc = "select"
  /\ LET stored == [id \in PRIds |-> IF db[id] = NoRow THEN 0 ELSE db[id].sha]
         pend(mine) == {id \in PRIds : db[id] # NoRow /\ db[id].status = "pending"
                                       /\ IsMine(id) = mine}
         unset == [id \in PRIds |-> FALSE]
         rv == reviewPRs \o TasksOf(pend(FALSE), stored, unset)
         my == myPRs \o TasksOf(pend(TRUE), stored, unset)
         batches == Chunks(rv, BatchSize) \o Chunks(my, BatchSize)
     IN /\ reviewPRs' = rv
        /\ myPRs' = my
        /\ todo' = batches
        /\ pc' = IF Len(batches) = 0 THEN "done" ELSE "batch"
  /\ UNCHANGED <<remote, db, file, polling, passes, events>>
  /\ UNCHANGED <<allPRs, k, existing, reviewDataMap, cur, idx, outcome>>
  /\ UNCHANGED procVars /\ UNCHANGED loopVars
  /\ UNCHANGED healVars
  /\ UNCHANGED httpVars

\* a filter that lets through only the PRs that have no row
NeedsReviewOnlyNew(d, f, pr) == d[pr.id] = NoRow

\* processPRBatch, "Filter PRs that need review": TRUE when pr goes to prsToReview
NeedsReview(d, f, pr) ==
  LET row == d[pr.id]
  IN IF row = NoRow THEN TRUE
     ELSE IF row.sha = pr.sha /\ row.status = "completed" /\ ~(row.path /\ f[pr.id] = 0)
          THEN FALSE
          ELSE row.status # "generating"

RECURSIVE MarkGenerating(_, _, _)
\* processPRBatch, "Mark all PRs as generating": SetPRGenerating for prs[i..]
MarkGenerating(d, prs, i) ==
  IF i > Len(prs) THEN d
  ELSE MarkGenerating(SetPRGenerating(d, prs[i].id, prs[i].sha, prs[i].draft), prs, i + 1)

\* processPRBatch up to the call of generateReviewsBatch
BatchBegin ==
  /\ pc = "batch"
  /\ LET batch == Head(todo)
         prsToReview == SelectSeq(batch, LAMBDA pr : NeedsReview(db, file, pr))
     IN IF Len(prsToReview) = 0
        THEN /\ todo' = Tail(todo)
             /\ pc' = IF Len(todo) = 1 THEN "done" ELSE "batch"
             /\ UNCHANGED <<db, cur, idx, outcome>>
        ELSE /\ db' = MarkGenerating(db, prsToReview, 1)
             /\ cur' = prsToReview
             /\ idx' = 1
             /\ outcome' = <<>>
             /\ pc' = "start"
             /\ UNCHANGED todo
  /\ UNCHANGED <<remote, file, polling, passes, events>>
  /\ UNCHANGED <<reviewPRs, myPRs, allPRs, k, existing, reviewDataMap>>
  /\ UNCHANGED procVars /\ UNCHANGED loopVars
  /\ UNCHANGED healVars
  /\ UNCHANGED httpVars

\* ------------------------------------------------------------------ executor
\* the pid the OS gives the generator process started for identity id
PidOf(id) == id

\* a generateReviewsBatch that goes on without waiting for the process to end
WaitReturnsEarly(c) == TRUE

\* generateReviewsBatch, "err := cmd.Wait()": returns once the process has ended
WaitReturns(c) == c.st # "running"

\* generateReviewsBatch: the loop index after task idx; past the last task the
\* function returns and processPRBatch starts its file check at the first task
NextIdx == IF idx + 1 > Len(cur) THEN 1 ELSE idx + 1
NextPc == IF idx + 1 > Len(cur) THEN "post" ELSE "start"

\* generateReviewsBatch: top of the loop, cmd.Start() fails and the task is skipped
\* ("continue")
GenSkip ==
  /\ pc = "start"
  /\ idx' = NextIdx
  /\ pc' = NextPc
  /\ outcome' = Append(outcome, "nostart")
  /\ UNCHANGED procVars
  /\ UNCHANGED <<remote, db, file, polling, passes, events>>
  /\ UNCHANGED <<reviewPRs, myPRs, allPRs, k, existing, reviewDataMap, todo, cur>>
  /\ UNCHANGED loopVars
  /\ UNCHANGED healVars
  /\ UNCHANGED httpVars

\* generateReviewsBatch: top of the loop, cmd.Start() succeeds, cbprPID and
\* cbprStartTime, trackReview
GenSpawn ==
  /\ pc = "start"
  /\ cmd' = [id |-> cur[idx].id, sha |-> cur[idx].sha, st |-> "running"]
  /\ running' = [running EXCEPT ![cur[idx].id] = @ + 1]
  /\ cbprPID' = PidOf(cur[idx].id)
  /\ cbprElapsed' = 0
  /\ activeReviews' = [activeReviews EXCEPT ![cur[idx].id] = PidOf(cur[idx].id)]
  /\ pc' = "wait"
  /\ UNCHANGED <<idx, outcome>>
  /\ UNCHANGED <<remote, db, file, polling, passes, events>>
  /\ UNCHANGED <<reviewPRs, myPRs, allPRs, k, existing, reviewDataMap, todo, cur>>
  /\ UNCHANGED loopVars
  /\ UNCHANGED healVars
  /\ UNCHANGED <<resp, notesArg, countdownVars, cacheVars, monitorLog, pureVars>>

\* generateReviewsBatch: top of the loop
GenStart == GenSkip \/ GenSpawn

\* the generator subprocess ends with one of the exit statuses codes, having written
\* its output file (made from the PR's current remote head) or not, as wrotes allows
GenExitAs(codes, wrotes) ==
  /\ cmd.st = "running"
  /\ \E code \in codes, wrote \in wrotes :
       /\ cmd' = [cmd EXCEPT !.st = code]
       /\ file' = IF wrote THEN [file EXCEPT ![cmd.id] = remote[cmd.id].head] ELSE file
  /\ running' = [running EXCEPT ![cmd.id] = IF @ > 0 THEN @ - 1 ELSE 0]
  /\ UNCHANGED <<remote, db, polling, passes, pc, activeReviews, cbprPID, events>>
  /\ UNCHANGED passVars /\ UNCHANGED loopVars
  /\ UNCHANGED healVars
  /\ UNCHANGED httpVars

\* the generator subprocess ends: exit status 0 or not (a kill included), with or
\* without its output file
GenExit == GenExitAs({"ok", "fail"}, BOOLEAN)

\* the generator subprocess succeeds: exit status 0 and the output file written
GenExitOk == GenExitAs({"ok"}, {TRUE})

\* generateReviewsBatch after cmd.Wait(): the store write for the task's outcome,
\* then untrackReview
AfterWait ==
  /\ pc = "wait"
  /\ WaitReturns(cmd)
  /\ LET id == cmd.id
         row == db[id]
     IN IF cmd.st \in {"fail", "killed"}
        THEN /\ db' = IF row # NoRow /\ row.status = "pending" /\ row.sha # cmd.sha
                      THEN db
                      ELSE UpdatePRStatus(db, id, "error")
             /\ outcome' = Append(outcome, cmd.st)
             /\ UNCHANGED file
        ELSE IF file[id] = 0
        THEN /\ db' = UpdatePRStatus(db, id, "error")
             /\ outcome' = Append(outcome, "nofile")
             /\ UNCHANGED file
        ELSE IF row # NoRow /\ row.sha # cmd.sha
        THEN /\ file' = [file EXCEPT ![id] = 0]
             /\ outcome' = Append(outcome, "stale")
             /\ UNCHANGED db
        ELSE /\ db' = upsertPRPreservingReviewData(db, id, cmd.sha, TRUE, "completed",
                                                       cur[idx].draft)
             /\ outcome' = Append(outcome, "ok")
             /\ UNCHANGED file
  /\ cbprPID' = 0
  /\ activeReviews' = [activeReviews EXCEPT ![cmd.id] = 0]
  /\ cmd' = NoCmd
  /\ idx' = NextIdx
  /\ pc' = NextPc
  /\ UNCHANGED <<remote, polling, passes, running, events>>
  /\ UNCHANGED <<reviewPRs, myPRs, allPRs, k, existing, reviewDataMap, todo, cur>>
  /\ UNCHANGED loopVars
  /\ UNCHANGED healVars
  /\ UNCHANGED httpVars

\* processPRBatch, "Check each PR individually to see if its file exists": one PR
PostCheck(d, f, pr) ==
  IF f[pr.id] # 0
  THEN upsertPRPreservingReviewData(d, pr.id, pr.sha, TRUE, "completed", pr.draft)
  ELSE UpdatePRStatus(d, pr.id, "error")

\* processPRBatch after generateReviewsBatch returned: the file check of task idx
PostBatch ==
  /\ pc = "post"
  /\ db' = PostCheck(db, file, cur[idx])
  /\ idx' = idx + 1
  /\ pc' = IF idx = Len(cur) THEN "batchend" ELSE "post"
  /\ UNCHANGED <<remote, file, polling, passes, events>>
  /\ UNCHANGED <<reviewPRs, myPRs, allPRs, k, existing, reviewDataMap, todo, cur, outcome>>
  /\ UNCHANGED procVars /\ UNCHANGED loopVars
  /\ UNCHANGED healVars
  /\ UNCHANGED httpVars

\* processPRBatch returns to processInBatches
BatchEnd ==
  /\ pc = "batchend"
  /\ todo' = Tail(todo)
  /\ cur' = <<>>
  /\ idx' = 0
  /\ outcome' = <<>>
  /\ pc' = IF Len(todo) = 1 THEN "done" ELSE "batch"
  /\ UNCHANGED <<remote, db, file, polling, passes, events>>
  /\ UNCHANGED <<reviewPRs, myPRs, allPRs, k, existing, reviewDataMap>>
  /\ UNCHANGED procVars /\ UNCHANGED loopVars
  /\ UNCHANGED healVars
  /\ UNCHANGED httpVars

\* a deferred function that leaves the flag as it is
PollDeferredKeeps(flag) == flag

\* startPoll's deferred function, "p.polling = false": the flag after it has run
PollDeferred(flag) == FALSE

\* startPoll's deferred function: poll returned, the flag is cleared
PollFinish ==
  /\ pc = "done"
  /\ polling' = PollDeferred(polling)
  /\ passes' = passes - 1
  /\ pc' = "idle"
  /\ reviewPRs' = <<>>
  /\ myPRs' = <<>>
  /\ todo' = <<>>
  /\ UNCHANGED <<remote, db, file, events>>
  /\ UNCHANGED <<allPRs, k, existing, reviewDataMap, cur, idx, outcome>>
  /\ UNCHANGED procVars /\ UNCHANGED loopVars
  /\ resetCount' = 0
  /\ UNCHANGED <<sweep, fetchOk>>
  /\ UNCHANGED httpVars

\* ------------------------------------------------------------------ environment
\* a commit is pushed to the PR
RemotePush(id) ==
  /\ remote[id].open
  /\ remote[id].head < MaxSha
  /\ events < MaxEvents
  /\ events' = events + 1
  /\ remote' = [remote EXCEPT ![id].head = @ + 1]
  /\ UNCHANGED <<db, file, polling, passes, pc>>
  /\ UNCHANGED passVars /\ UNCHANGED procVars /\ UNCHANGED loopVars
  /\ UNCHANGED healVars
  /\ UNCHANGED httpVars

\* the PR is closed or merged
RemoteClose(id) ==
  /\ remote[id].open
  /\ events < MaxEvents
  /\ events' = events + 1
  /\ remote' = [remote EXCEPT ![id].open = FALSE]
  /\ UNCHANGED <<db, file, polling, passes, pc>>
  /\ UNCHANGED passVars /\ UNCHANGED procVars /\ UNCHANGED loopVars
  /\ UNCHANGED healVars
  /\ UNCHANGED httpVars

\* somebody submits a review of the PR
RemoteReview(id) ==
  /\ remote[id].open
  /\ remote[id].rev < MaxRev
  /\ events < MaxEvents
  /\ events' = events + 1
  /\ remote' = [remote EXCEPT ![id].rev = @ + 1]
  /\ UNCHANGED <<db, file, polling, passes, pc>>
  /\ UNCHANGED passVars /\ UNCHANGED procVars /\ UNCHANGED loopVars
  /\ UNCHANGED healVars
  /\ UNCHANGED httpVars

AgeRow(row) ==
  IF row = NoRow THEN row
  ELSE [row EXCEPT !.gs = AgeBy1(@, StaleMinutes + 1), !.lra = AgeBy1(@, ErrorMinutes + 1)]

\* one minute passes.  Stored times are read by PollHeal alone and a tick commutes
\* with every other step, so the minutes that pass anywhere between two passes are
\* taken when the next pass is about to heal
Tick ==
  /\ pc = "heal"
  /\ db' = [id \in PRIds |-> AgeRow(db[id])]
  /\ db' # db
  /\ UNCHANGED <<remote, file, polling, passes, pc, events>>
  /\ UNCHANGED passVars /\ UNCHANGED procVars /\ UNCHANGED loopVars
  /\ UNCHANGED healVars
  /\ UNCHANGED httpVars

\* the server process dies (its generator child with it) and is started again:
\* the store and the reviews directory persist, everything in memory starts afresh
Crash ==
  /\ events < MaxEvents
  /\ events' = events + 1
  /\ triggerChan' = 0
  /\ tickerC' = 0
  /\ pcLoop' = "initial"
  /\ polling' = FALSE
  /\ passes' = 0
  /\ pc' = "idle"
  /\ reviewPRs' = <<>>
  /\ myPRs' = <<>>
  /\ allPRs' = <<>>
  /\ k' = 0
  /\ existing' = NoRow
  /\ reviewDataMap' = NoReviewData
  /\ todo' = <<>>
  /\ cur' = <<>>
  /\ idx' = 0
  /\ outcome' = <<>>
  /\ cmd' = NoCmd
  /\ running' = [id \in PRIds |-> 0]
  /\ activeReviews' = [id \in PRIds |-> 0]
  /\ cbprPID' = 0
  /\ resetCount' = 0
  /\ sweep' = NoSweep
  /\ fetchOk' = {}
  /\ owed' = FALSE
  /\ trigCalls' = 0
  /\ UNCHANGED <<remote, db, file>>
  /\ UNCHANGED httpVars

\* a panic inside poll (anywhere but in the blocking cmd.Wait()): the deferred function
\* of startPoll's goroutine runs, nothing recovers the panic and the process dies, to be
\* started again
PollPanic ==
  /\ pc \notin {"idle", "wait"}
  /\ polling' = PollDeferred(polling)
  /\ Crash

Next ==
  \/ LoopInitial
  \/ LoopTicker
  \/ LoopManual
  \/ TickerFire
  \/ \E id \in PRIds : HandleDeletePR(id)
  \/ PollHeal
  \/ PollRetryErrors
  \/ CleanupClosedPRs
  \/ CheckForOutdatedReviews
  \/ FetchPRs
  \/ ReviewDataRead
  \/ ReviewDataWrite
  \/ SelectTasks
  \/ BatchBegin
  \/ GenStart
  \/ GenExit
  \/ AfterWait
  \/ PostBatch
  \/ BatchEnd
  \/ PollFinish
  \/ \E id \in PRIds : RemotePush(id)
  \/ \E id \in PRIds : RemoteClose(id)
  \/ Tick
  \/ Crash

Spec == Init /\ [][Next]_vars

\* the loop and the passes with manual triggers, and passes that end in a panic
NextPanic ==
  \/ LoopInitial
  \/ LoopTicker
  \/ LoopManual
  \/ TickerFire
  \/ \E id \in PRIds : HandleDeletePR(id)
  \/ PollHeal
  \/ PollRetryErrors
  \/ CleanupClosedPRs
  \/ CheckForOutdatedReviews
  \/ FetchPRs
  \/ ReviewDataRead
  \/ ReviewDataWrite
  \/ SelectTasks
  \/ BatchBegin
  \/ GenStart
  \/ GenExit
  \/ AfterWait
  \/ PostBatch
  \/ BatchEnd
  \/ PollFinish
  \/ PollPanic

SpecPanic == Init /\ [][NextPanic]_vars

\* a step of the pass when every generator can be started and succeeds
PassStepOk ==
  \/ PollHeal
  \/ PollRetryErrors
  \/ CleanupClosedPRs
  \/ CheckForOutdatedReviews
  \/ FetchPRs
  \/ ReviewDataRead
  \/ ReviewDataWrite
  \/ SelectTasks
  \/ BatchBegin
  \/ GenSpawn
  \/ GenExitOk
  \/ AfterWait
  \/ PostBatch
  \/ BatchEnd
  \/ PollFinish

\* the program with a generator that succeeds
NextOk ==
  \/ LoopInitial
  \/ LoopTicker
  \/ LoopManual
  \/ TickerFire
  \/ \E id \in PRIds : HandleDeletePR(id)
  \/ PassStepOk
  \/ \E id \in PRIds : RemotePush(id)
  \/ \E id \in PRIds : RemoteClose(id)
  \/ Tick
  \/ Crash

\* the program with a generator that succeeds, while PRs, drafts among them, are
\* being reviewed, closed and removed from the dashboard (no row is left generating
\* from one pass to the next here, so the passing of time changes nothing)
NextReview ==
  \/ LoopInitial
  \/ LoopTicker
  \/ LoopManual
  \/ TickerFire
  \/ \E id \in PRIds : HandleDeletePR(id)
  \/ PassStepOk
  \/ \E id \in PRIds : RemoteReview(id)
  \/ \E id \in PRIds : RemoteClose(id)

SpecReview == InitReview /\ [][NextReview]_vars

\* the program with a generator that succeeds, while clients send delete requests of
\* every kind
NextHttp ==
  \/ LoopInitial
  \/ LoopTicker
  \/ LoopManual
  \/ TickerFire
  \/ PassStepOk
  \/ \E method \in Methods, decodes \in BOOLEAN, id \in PRIds : DeleteRequest(method, decodes, id)

SpecHttp == Init /\ [][NextHttp]_vars

\* the lengths of the notes given: none, one character, the most that is kept, and
\* more than that
NoteLens == {0, 1, NotesMax, MaxNoteLen}

\* the program while notes of these lengths are being stored
NextNotes ==
  \/ LoopInitial
  \/ LoopTicker
  \/ TickerFire
  \/ PollHeal
  \/ PollRetryErrors
  \/ CleanupClosedPRs
  \/ CheckForOutdatedReviews
  \/ FetchPRs
  \/ ReviewDataRead
  \/ ReviewDataWrite
  \/ SelectTasks
  \/ BatchBegin
  \/ GenStart
  \/ GenExit
  \/ AfterWait
  \/ PostBatch
  \/ BatchEnd
  \/ PollFinish
  \/ \E id \in PRIds : RemotePush(id)
  \/ Crash
  \/ \E id \in PRIds, n \in NoteLens : UpdateNotesCall(id, NoteOfLen(n))

SpecNotes == Init /\ [][NextNotes]_vars

\* ------------------------------------------------------------------ countdown

\* the countdown to the tick whose number is the least multiple of the interval that
\* is not before now
SecondsToCeilTick(tickerStart, now, interval) ==
  IF tickerStart = Null THEN 0
  ELSE LET elapsed == now - tickerStart
           tickNumber == (elapsed + interval - 1) \div interval
           remaining == tickNumber * interval - elapsed
       IN  IF remaining < 0 THEN 0 ELSE remaining \div UnitsPerSecond

\* Poller.GetSecondsUntilNextPoll: 0 for the zero time; else tickNumber =
\* int(elapsed/interval) + 1, remaining = tickNumber * interval - elapsed, 0 when
\* negative, else int(remaining.Seconds())
GetSecondsUntilNextPoll(tickerStart, now, interval) ==
  IF tickerStart = Null THEN 0
  ELSE LET elapsed == now - tickerStart
           tickNumber == (elapsed \div interval) + 1
           remaining == tickNumber * interval - elapsed
       IN  IF remaining < 0 THEN 0 ELSE remaining \div UnitsPerSecond

\* the store and the loop at rest
ProgramIdle ==
  /\ UNCHANGED <<remote, db, file, polling, passes, pc, resp, notesArg, events>>
  /\ UNCHANGED cacheVars /\ UNCHANGED watchVars
  /\ UNCHANGED loopVars /\ UNCHANGED passVars /\ UNCHANGED procVars /\ UNCHANGED healVars

\* Poller.Start records the ticker's start time
RecordTickerStart ==
  /\ tickerStartTime = Null
  /\ tickerStartTime' = clock
  /\ UNCHANGED <<clock, pollingInterval, seconds, askedAt>>
  /\ UNCHANGED pureVars
  /\ ProgramIdle

\* time passes
ClockAdvance ==
  /\ clock < MaxClock
  /\ clock' = clock + 1
  /\ UNCHANGED <<pollingInterval, tickerStartTime, seconds, askedAt>>
  /\ UNCHANGED pureVars
  /\ ProgramIdle

\* a status request reads the countdown
CountdownQuery ==
  /\ seconds' = GetSecondsUntilNextPoll(tickerStartTime, clock, pollingInterval)
  /\ askedAt' = clock
  /\ UNCHANGED <<clock, pollingInterval, tickerStartTime>>
  /\ UNCHANGED pureVars
  /\ ProgramIdle

\* the countdown alone, for every polling interval up to MaxInterval
InitCountdownAny ==
  /\ remote = [id \in PRIds |-> [open |-> TRUE, head |-> 1, draft |-> FALSE, rev |-> 0]]
  /\ InitLocal
  /\ clock = 0
  /\ pollingInterval \in 1..MaxInterval
  /\ tickerStartTime = Null
  /\ seconds = Null
  /\ askedAt = Null
  /\ InitList
  /\ InitScore
  /\ InitGroup

NextCountdown == RecordTickerStart \/ ClockAdvance \/ CountdownQuery

SpecCountdown == InitCountdownAny /\ [][NextCountdown]_vars

\* ------------------------------------------------------------------ listing

ListStatuses == {"generating", "pending", "completed", "error"}
ListRows == [mine : BOOLEAN, created : {Null} \cup (1..MaxCreated), status : ListStatuses]

\* GetAllPRs, "CASE status WHEN 'generating' THEN 1 WHEN 'pending' THEN 2 WHEN
\* 'completed' THEN 3 ELSE 4 END"
StatusRank(status) ==
  IF status = "generating" THEN 1
  ELSE IF status = "pending" THEN 2
  ELSE IF status = "completed" THEN 3
  ELSE 4

\* GetAllPRs, ORDER BY is_mine ASC, created_at DESC NULLS LAST, the status rank: row a
\* sorts strictly before row b
SortsBefore(a, b) ==
  \/ ~a.mine /\ b.mine
  \/ /\ a.mine = b.mine
     /\ \/ a.created # Null /\ b.created = Null
        \/ a.created # Null /\ b.created # Null /\ a.created > b.created
  \/ /\ a.mine = b.mine
     /\ a.created = b.created
     /\ StatusRank(a.status) < StatusRank(b.status)

\* the orders in which every row occurs exactly once
Orderings(rows) ==
  {p \in [DOMAIN rows -> DOMAIN rows] : \A i, j \in DOMAIN rows : i # j => p[i] # p[j]}

\* DB.GetAllPRs: the results the query may give, every row once, in an order that
\* respects the ORDER BY; the order of rows that are equal under it is not determined
\* by the query
GetAllPRs(rows) ==
  {p \in Orderings(rows) :
     \A i, j \in DOMAIN rows : i < j => ~SortsBefore(rows[p[j]], rows[p[i]])}

\* a call of GetAllPRs
ListAll ==
  /\ listing = <<>>
  /\ listing' \in GetAllPRs(listStore)
  /\ UNCHANGED <<listStore, listingB>>
  /\ ProgramIdle
  /\ UNCHANGED countdownVars /\ UNCHANGED scoreVars /\ UNCHANGED killVars
  /\ UNCHANGED groupVars

\* a call of GetAllPRs on a second store that holds the same rows
ListAllB ==
  /\ listingB = <<>>
  /\ listingB' \in GetAllPRs(listStore)
  /\ UNCHANGED <<listStore, listing>>
  /\ ProgramIdle
  /\ UNCHANGED countdownVars /\ UNCHANGED scoreVars /\ UNCHANGED killVars
  /\ UNCHANGED groupVars

\* the listing alone, for every store of MaxRows rows
InitListAny ==
  /\ remote = [id \in PRIds |-> [open |-> TRUE, head |-> 1, draft |-> FALSE, rev |-> 0]]
  /\ InitLocal
  /\ InitCountdown
  /\ listStore \in [1..MaxRows -> ListRows]
  /\ listing = <<>>
  /\ listingB = <<>>
  /\ InitScore
  /\ InitGroup

NextList == ListAll \/ ListAllB

SpecList == InitListAny /\ [][NextList]_vars

\* ------------------------------------------------------------------ prioritization

\* what scorePR reads: the age of the PR in half days (time.Since(details.CreatedAt)),
\* details.ReviewCount, pr.ApprovalCount, details.Additions, details.RequestedMe and
\* pr.MyReviewStatus
ScoreInputs ==
  [ageHalfDays : 0..MaxAgeHalfDays,
   reviewCount : 0..MaxReviews,
   approvalCount : 0..MaxApprovals,
   additions : {0, LargeAdditions - 1, LargeAdditions, VeryLargeAdditions - 1, VeryLargeAdditions},
   requestedMe : BOOLEAN,
   myReviewStatus : {"", "APPROVED", "COMMENTED", "CHANGES_REQUESTED"}]

\* scorePR, "ageDays := int(time.Since(details.CreatedAt).Hours() / 24)"
AgeDays(in) == in.ageHalfDays \div 2

\* scorePR, the seven terms of the score
Score(in) ==
  LET ageDays == AgeDays(in)
      age == IF ageDays >= 4 THEN 50
             ELSE IF ageDays >= 3 THEN 30
             ELSE IF ageDays >= 2 THEN 20
             ELSE IF ageDays >= 1 THEN 10 ELSE 0
      gap == IF in.reviewCount >= 3 /\ in.approvalCount = 0 THEN 40 ELSE 0
      attention == IF in.additions >= LargeAdditions /\ in.reviewCount < 2 THEN 30 ELSE 0
      requested == IF in.requestedMe THEN 25 ELSE 0
      size == IF in.additions >= VeryLargeAdditions THEN 20
              ELSE IF in.additions >= LargeAdditions THEN 10 ELSE 0
      covered == IF in.approvalCount >= 1 /\ in.reviewCount >= 5 THEN 30 ELSE 0
      reviewed == IF in.myReviewStatus \in {"APPROVED", "COMMENTED"} THEN 40 ELSE 0
  IN  age + gap + attention + requested + size - covered - reviewed

\* a labelling that takes a score of exactly 60 for MEDIUM and of exactly 0 for SKIP
PriorityAbove(score) ==
  IF score > HighScore THEN "HIGH"
  ELSE IF score > MediumScore THEN "MEDIUM"
  ELSE IF score > 0 THEN "LOW"
  ELSE "SKIP"

\* scorePR, "Determine priority level"
Priority(score) ==
  IF score >= HighScore THEN "HIGH"
  ELSE IF score >= MediumScore THEN "MEDIUM"
  ELSE IF score >= 0 THEN "LOW"
  ELSE "SKIP"

\* Prioritizer.scorePR
scorePR(in) == [score |-> Score(in), priority |-> Priority(Score(in))]

\* a call of scorePR
ScoreOne ==
  /\ scoreOut = NoScore
  /\ scoreOut' = scorePR(scoreIn)
  /\ UNCHANGED scoreIn
  /\ ProgramIdle
  /\ UNCHANGED countdownVars /\ UNCHANGED listVars /\ UNCHANGED killVars
  /\ UNCHANGED groupVars

\* scorePR alone, for every input
InitScoreAny ==
  /\ remote = [id \in PRIds |-> [open |-> TRUE, head |-> 1, draft |-> FALSE, rev |-> 0]]
  /\ InitLocal
  /\ InitCountdown
  /\ InitList
  /\ scoreIn \in ScoreInputs
  /\ scoreOut = NoScore
  /\ InitGroup

NextScore == ScoreOne

SpecScore == InitScoreAny /\ [][NextScore]_vars

\* ------------------------------------------------------------------ killReview

\* a kill that reports success and leaves the entry in the table
killReviewKeepingEntry(ar, id) ==
  IF ar[id] = 0 THEN [ret |-> FALSE, ar |-> ar] ELSE [ret |-> TRUE, ar |-> ar]

\* killReview: the value it returns and the table it leaves. Without an entry it
\* returns false; with one it kills the pid and, the kill having succeeded, calls
\* untrackReview and returns true
killReview(ar, id) ==
  IF ar[id] = 0 THEN [ret |-> FALSE, ar |-> ar]
  ELSE [ret |-> TRUE, ar |-> [ar EXCEPT ![id] = 0]]

\* a call of killReview for identity id: process.Kill() ends the generator of the
\* tracked pid if it is still running (it may have begun its output file)
KillReviewCall(id) ==
  /\ Len(killLog) < MaxKills
  /\ LET r == killReview(activeReviews, id)
     IN /\ killLog' = Append(killLog, [id |-> id, ret |-> r.ret])
        /\ activeReviews' = r.ar
        /\ IF activeReviews[id] # 0 /\ cmd.id = id /\ cmd.st = "running"
           THEN /\ cmd' = [cmd EXCEPT !.st = "killed"]
                /\ running' = [running EXCEPT ![id] = IF @ > 0 THEN @ - 1 ELSE 0]
                /\ \E wrote \in BOOLEAN :
                     file' = IF wrote THEN [file EXCEPT ![id] = remote[id].head] ELSE file
           ELSE UNCHANGED <<cmd, running, file>>
  /\ UNCHANGED <<remote, db, polling, passes, pc, cbprPID, events>>
  /\ UNCHANGED <<resp, notesArg, countdownVars, cacheVars, watchVars, listVars, scoreVars,
                 groupVars>>
  /\ UNCHANGED passVars /\ UNCHANGED loopVars /\ UNCHANGED healVars

\* the passes with a generator that may fail, and calls of killReview at any moment
NextKill ==
  \/ LoopInitial
  \/ LoopTicker
  \/ TickerFire
  \/ PollHeal
  \/ PollRetryErrors
  \/ CleanupClosedPRs
  \/ CheckForOutdatedReviews
  \/ FetchPRs
  \/ ReviewDataRead
  \/ ReviewDataWrite
  \/ SelectTasks
  \/ BatchBegin
  \/ GenStart
  \/ GenExit
  \/ AfterWait
  \/ PostBatch
  \/ BatchEnd
  \/ PollFinish
  \/ \E id \in PRIds : KillReviewCall(id)

SpecKill == Init /\ [][NextKill]_vars

\* ------------------------------------------------------------------ sub-batches

\* the PR at position i of the list
GroupPR(in, i) == [id |-> i, repo |-> in[i]]

\* poll, "reviewPRsByRepo[repoKey] = append(reviewPRsByRepo[repoKey], pr)": the PRs of
\* one repository, in the order of the list
RepoGroup(in, repo) ==
  SelectSeq([i \in 1..Len(in) |-> GroupPR(in, i)], LAMBDA pr : pr.repo = repo)

\* the keys of the map of groups
GroupKeys(in) == {in[i] : i \in 1..Len(in)}

\* a loop that gives up the group at the first sub-batch that fails
RemainingUnlessError(batches, err) == IF err THEN <<>> ELSE Tail(batches)

\* processInBatches: an error of processPRBatch is logged and the loop goes on
RemainingAfter(batches, err) == Tail(batches)

\* poll, "for repoKey, repoPRs := range reviewPRsByRepo": the next group, in the
\* order the map yields it; processInBatches cuts it into sub-batches
GroupBegin ==
  /\ grpCur = <<>>
  /\ \E repo \in grpLeft :
       /\ grpCur' = Chunks(RepoGroup(grpIn, repo), BatchSize)
       /\ grpLeft' = grpLeft \ {repo}
  /\ UNCHANGED <<grpIn, grpDone>>
  /\ ProgramIdle
  /\ UNCHANGED countdownVars /\ UNCHANGED listVars /\ UNCHANGED scoreVars
  /\ UNCHANGED killVars

\* processInBatches: one call of processPRBatch, which returns an error or nil
SubBatch ==
  /\ grpCur # <<>>
  /\ \E err \in BOOLEAN :
       /\ grpDone' = Append(grpDone, [prs |-> Head(grpCur), err |-> err])
       /\ grpCur' = RemainingAfter(grpCur, err)
  /\ UNCHANGED <<grpIn, grpLeft>>
  /\ ProgramIdle
  /\ UNCHANGED countdownVars /\ UNCHANGED listVars /\ UNCHANGED scoreVars
  /\ UNCHANGED killVars

\* grouping and sub-batching alone, for every list of PRs of two repositories
InitGroupAny ==
  /\ remote = [id \in PRIds |-> [open |-> TRUE, head |-> 1, draft |-> FALSE, rev |-> 0]]
  /\ InitLocal
  /\ InitCountdown
  /\ InitList
  /\ InitScore
  /\ \E n \in 0..MaxListLen : grpIn \in [1..n -> Repos]
  /\ grpLeft = GroupKeys(grpIn)
  /\ grpCur = <<>>
  /\ grpDone = <<>>

NextGroup == GroupBegin \/ SubBatch

SpecGroup == InitGroupAny /\ [][NextGroup]_vars

\* ------------------------------------------------------------------ watchdog

\* monitorCbprProcesses: "elapsed > 5*time.Minute"
OverHard(elapsed) == elapsed > HardSeconds

\* monitorCbprProcesses: "elapsed > 2*time.Minute"
OverSoft(elapsed) == elapsed > SoftSeconds

\* monitorCbprProcesses, one firing of its 30-second ticker while a pid is tracked:
\* past the hard threshold the process is killed (it may have begun its output file)
\* and cbprPID is cleared; past the soft threshold a warning is logged
MonitorFire ==
  /\ cbprPID # 0
  /\ LET elapsed == cbprElapsed + MonitorSeconds
     IN /\ cbprElapsed' = elapsed
        /\ IF OverHard(elapsed)
           THEN /\ monitorLog' = "kill"
                /\ cbprPID' = 0
                /\ IF cmd.st = "running"
                   THEN /\ cmd' = [cmd EXCEPT !.st = "killed"]
                        /\ running' = [running EXCEPT ![cmd.id] = IF @ > 0 THEN @ - 1 ELSE 0]
                        /\ \E wrote \in BOOLEAN :
                             file' = IF wrote THEN [file EXCEPT ![cmd.id] = remote[cmd.id].head]
                                     ELSE file
                   ELSE UNCHANGED <<cmd, running, file>>
           ELSE /\ monitorLog' = IF OverSoft(elapsed) THEN "warn" ELSE "normal"
                /\ UNCHANGED <<cbprPID, cmd, running, file>>
  /\ UNCHANGED <<remote, db, polling, passes, pc, activeReviews, events>>
  /\ UNCHANGED <<resp, notesArg, countdownVars, cacheVars, pureVars>>
  /\ UNCHANGED passVars /\ UNCHANGED loopVars /\ UNCHANGED healVars

\* the passes with a generator that may fail or hang, under the monitor
NextWatchdog ==
  \/ LoopInitial
  \/ LoopTicker
  \/ TickerFire
  \/ PollHeal
  \/ PollRetryErrors
  \/ CleanupClosedPRs
  \/ CheckForOutdatedReviews
  \/ FetchPRs
  \/ ReviewDataRead
  \/ ReviewDataWrite
  \/ SelectTasks
  \/ BatchBegin
  \/ GenStart
  \/ GenExit
  \/ AfterWait
  \/ PostBatch
  \/ BatchEnd
  \/ PollFinish
  \/ MonitorFire

SpecWatchdog == Init /\ [][NextWatchdog]_vars

\* ------------------------------------------------------------------ status

\* the store, the loop and the files as a status request leaves them
StatusFrame ==
  /\ UNCHANGED <<remote, db, file, polling, passes, pc, notesArg, events>>
  /\ UNCHANGED <<clock, pollingInterval, tickerStartTime>>
  /\ UNCHANGED watchVars /\ UNCHANGED pureVars
  /\ UNCHANGED loopVars /\ UNCHANGED passVars /\ UNCHANGED procVars /\ UNCHANGED healVars

\* Server.handleStatus: "cachedInfo == nil || cacheAge > 30*time.Second"
CacheExpired(cache, age) == ~cache \/ age > RateLimitCacheSeconds

\* Server.handleStatus up to the release of the read lock: the counts, the countdown
\* and the read of the cache; the answer is sent when the cache needs no refresh
StatusBegin(r) ==
  /\ statusPc[r] = "idle"
  /\ seconds' = GetSecondsUntilNextPoll(tickerStartTime, clock, pollingInterval)
  /\ askedAt' = clock
  /\ IF CacheExpired(rateLimitCache, cacheAge)
     THEN /\ statusPc' = [statusPc EXCEPT ![r] = "refresh"]
          /\ UNCHANGED resp
     ELSE /\ resp' = StatusOK
          /\ UNCHANGED statusPc
  /\ UNCHANGED <<rateLimitCache, cacheAge, sinceProbe>>
  /\ StatusFrame

\* Server.handleStatus from the call of GetRateLimitInfo: the result is stored under
\* the write lock when the call succeeds, the old value is kept when it fails
StatusRefresh(r, ok) ==
  /\ statusPc[r] = "refresh"
  /\ sinceProbe' = 0
  /\ IF ok
     THEN rateLimitCache' = TRUE /\ cacheAge' = 0
     ELSE UNCHANGED <<rateLimitCache, cacheAge>>
  /\ statusPc' = [statusPc EXCEPT ![r] = "idle"]
  /\ resp' = StatusOK
  /\ UNCHANGED <<seconds, askedAt>>
  /\ StatusFrame

\* a second passes; ages past the cache's lifetime are not told apart
SecondPasses ==
  /\ \/ rateLimitCache /\ cacheAge <= RateLimitCacheSeconds
     \/ sinceProbe # Null /\ sinceProbe <= RateLimitCacheSeconds
  /\ cacheAge' = IF rateLimitCache /\ cacheAge <= RateLimitCacheSeconds
                 THEN cacheAge + 1 ELSE cacheAge
  /\ sinceProbe' = IF sinceProbe # Null /\ sinceProbe <= RateLimitCacheSeconds
                   THEN sinceProbe + 1 ELSE sinceProbe
  /\ UNCHANGED <<rateLimitCache, statusPc, resp, seconds, askedAt>>
  /\ StatusFrame

\* concurrent status requests
NextStatus ==
  \/ \E r \in Requests : StatusBegin(r)
  \/ \E r \in Requests, ok \in BOOLEAN : StatusRefresh(r, ok)
  \/ SecondPasses

SpecStatus == Init /\ [][NextStatus]_vars

\* fair ticking: the goroutines of the loop and of the pass keep running, the ticker
\* keeps firing, and time passes between one pass and the next
FairTicking ==
  /\ WF_vars(PassStepOk)
  /\ WF_vars(LoopInitial \/ LoopTicker)
  /\ WF_vars(TickerFire)
  /\ SF_vars(Tick)

FairSpecOk == Init /\ [][NextOk]_vars /\ FairTicking

\* ------------------------------------------------------------------ claims
\* a step in which Poller.Start calls startPoll
StartPollCall == LoopInitial \/ LoopTicker \/ LoopManual

\* C1: at most one execution of Poller.poll is in progress at any time, and a
\* startPoll call made while a pass is in progress starts no pass and returns
\* (the loop is back at its select)
C1_OnePassAtATime ==
  /\ [](passes <= 1)
  /\ [][(polling /\ StartPollCall)
          => (passes' = passes /\ pc' = pc /\ polling' /\ pcLoop' = "select")]_vars

\* C1 witness: a manual trigger sent during the pass has been received by the loop
\* while that pass is still running, so its startPoll call was the skipped one
C1_Witness ==
  /\ polling /\ passes = 1
  /\ owed /\ triggerChan = 0 /\ trigCalls = 0
  /\ pcLoop = "select"

\* C2: a Trigger() called while a pass is in progress is not lost: once that pass
\* has ended a further pass starts without waiting for the ticker.  So it never
\* happens that no pass runs, nothing is pending in triggerChan, the loop waits in
\* its select, and a trigger sent during the last pass has still started no pass
C2_TriggerDuringPassIsServed ==
  ~(owed /\ ~polling /\ pc = "idle" /\ triggerChan = 0 /\ pcLoop = "select")

\* C3: at most one manual trigger is pending, however many Trigger() calls were
\* made since the loop last received one (the loop will make one manual startPoll
\* call for them, not more), and a handler that calls Trigger() can always take its
\* step, whatever triggerChan holds
C3_AtMostOnePendingTrigger ==
  /\ triggerChan <= TriggerCap
  /\ triggerChan = IF trigCalls > 0 THEN 1 ELSE 0
  /\ \A id \in PRIds : events < MaxEvents => ENABLED HandleDeletePR(id)

\* C3 witness: two or more Trigger() calls before the loop received, one pending
C3_Witness == trigCalls >= 2 /\ triggerChan = 1

\* C4: every completed row references a file that exists and that was made from
\* the commit stored in the row's head_sha
C4_ArtifactCoherence ==
  \A id \in PRIds :
    (db[id] # NoRow /\ db[id].status = "completed")
      => (db[id].path /\ file[id] # 0 /\ file[id] = db[id].sha)

\* C5: a task whose generator succeeded while the stored head_sha differs from the
\* head_sha it was spawned with has its artifact deleted and the row's status is
\* left unchanged by that task, by its handler in generateReviewsBatch and by the
\* file check processPRBatch makes for it afterwards
C5_StaleTaskLeavesStatus ==
  [][/\ (/\ pc = "wait" /\ pc' \in {"start", "post"} /\ cmd.st = "ok"
         /\ file[cmd.id] # 0 /\ db[cmd.id] # NoRow)
          => IF db[cmd.id].sha = cmd.sha
             THEN db'[cmd.id].status = "completed"
             ELSE db' = db /\ file'[cmd.id] = 0
     /\ (pc = "post" /\ idx' # idx /\ db[cur[idx].id] # NoRow)
          => /\ outcome[idx] = "stale"
                  => db'[cur[idx].id].status = db[cur[idx].id].status
             /\ (db'[cur[idx].id] # db[cur[idx].id]
                   /\ db'[cur[idx].id].status = "completed")
                  => db[cur[idx].id].sha = cur[idx].sha]_vars

\* the task at position i is the only task of its identity in the batch
OnlyTaskOfItsPR(i) == \A j \in 1..Len(cur) : cur[j].id = cur[i].id => j = i

\* C6: when processPRBatch returns, a row is completed only if its task's generator
\* exited 0 with the output file present, and the row of a task whose generator
\* failed, was killed or could not be started is in error
C6_FailedTaskEndsInError ==
  pc = "batchend" =>
    \A i \in 1..Len(cur) :
      (OnlyTaskOfItsPR(i) /\ db[cur[i].id] # NoRow) =>
        /\ db[cur[i].id].status = "completed" => outcome[i] = "ok"
        /\ outcome[i] \in {"fail", "nostart"} => db[cur[i].id].status = "error"

\* C7 (its case): a generator task has failed while the store shows its row pending
\* with another head_sha
C7_Case ==
  /\ pc = "wait" /\ cmd.st = "fail"
  /\ db[cmd.id] # NoRow /\ db[cmd.id].status = "pending" /\ db[cmd.id].sha # cmd.sha

\* C7: such a state does not occur
C7_CaseNeverArises == ~C7_Case

\* C8: every identity has at most one live generator process, and the live-tasks
\* table names a process only for the task generateReviewsBatch is waiting for
C8_AtMostOneLiveTask ==
  \A id \in PRIds :
    /\ running[id] <= 1
    /\ activeReviews[id] # 0 => (cmd.id = id /\ pc = "wait")

\* C8 witness: the second task of one identity in one batch is live
C8_Witness ==
  /\ pc = "wait" /\ idx = 2 /\ cur[1].id = cur[2].id
  /\ running[cur[2].id] = 1 /\ activeReviews[cur[2].id] # 0

\* C9: every row whose status is generating has a generating_since
C9_GeneratingHasSince ==
  \A id \in PRIds :
    (db[id] # NoRow /\ db[id].status = "generating") => db[id].gs # Null

\* C10: every row whose status is completed has an artifact_path and a
\* last_reviewed_at
C10_CompletedHasPathAndTime ==
  \A id \in PRIds :
    (db[id] # NoRow /\ db[id].status = "completed") => (db[id].path /\ db[id].lra # Null)

\* row id is generating with generating_since null or more than 2 minutes old
Zombie(d, id) ==
  /\ d[id] # NoRow /\ d[id].status = "generating"
  /\ (d[id].gs = Null \/ d[id].gs > 2)

\* C11: right after ResetStaleGeneratingPRs(2) no row is generating with
\* generating_since null or older than 2 minutes; each row that was is now pending
\* with generating_since null and otherwise as before, every other row (a generating
\* row not older than 2 minutes among them) is unchanged, and the returned count is
\* the number of rows that changed
C11_ResetStaleGenerating ==
  /\ [](pc = "healerr" => \A id \in PRIds : ~Zombie(db, id))
  /\ [][(pc = "heal" /\ pc' = "healerr") =>
          /\ \A id \in PRIds :
               IF Zombie(db, id)
               THEN db'[id] = [db[id] EXCEPT !.status = "pending", !.gs = Null]
               ELSE db'[id] = db[id]
          /\ resetCount' = Cardinality({id \in PRIds : Zombie(db, id)})]_vars

\* C11 witness: the reset has just turned a row pending while another row, generating
\* for less than 2 minutes, is still generating
C11_Witness ==
  /\ pc = "healerr" /\ resetCount = 1
  /\ \E id \in PRIds : db[id] # NoRow /\ db[id].status = "generating" /\ db[id].gs # Null

\* the row of the task being waited for is generating at the task's head_sha, the
\* generator process is live, and the remote head of the PR is another commit
LiveTaskOutdated ==
  /\ cmd.st = "running" /\ running[cmd.id] > 0 /\ activeReviews[cmd.id] # 0
  /\ db[cmd.id] # NoRow /\ db[cmd.id].status = "generating" /\ db[cmd.id].sha = cmd.sha
  /\ remote[cmd.id].open /\ remote[cmd.id].head # cmd.sha

\* C12: when the remote head of a PR has moved while its row is generating and its
\* task is live, the next ticker fire puts the reconciler to work on it: the fire
\* starts a pass, the pass whose checkForOutdatedReviews cancels the task and resets
\* the row to pending at the new head
C12_TickerFireStartsCancellingPass ==
  [][(LiveTaskOutdated /\ LoopTicker) => (pc' = "heal" /\ passes' = passes + 1)]_vars

\* row id is generating and no pass is in progress, so no generator task is live
StuckGenerating(id) ==
  /\ db[id] # NoRow /\ db[id].status = "generating"
  /\ pc = "idle" /\ cmd = NoCmd /\ running[id] = 0

\* C13: a row left generating with no live task does not stay so: under fair
\* ticking a generator task is started for it and, the generator succeeding, the row
\* becomes completed (unless the row is deleted meanwhile)
C13_StuckGeneratingHeals ==
  \A id \in PRIds :
    /\ StuckGenerating(id) ~> (db[id] = NoRow \/ (cmd.id = id /\ cmd.st = "running"))
    /\ StuckGenerating(id) ~> (db[id] = NoRow \/ db[id].status = "completed")

\* C13 witness: the only row of the store, left generating by a restart, was reset by
\* this pass, its generator succeeded and the row is completed
C13_Witness ==
  /\ events >= 1 /\ pc = "batchend" /\ resetCount = 1
  /\ Len(cur) = 1 /\ outcome[1] = "ok"
  /\ db[cur[1].id] # NoRow /\ db[cur[1].id].status = "completed"
  /\ \A id \in PRIds \ {cur[1].id} : db[id] = NoRow

\* C14: the pass that first meets a PR with no row in the store only creates the row,
\* pending at the surfaced head_sha, and hands no task for it to the generator: a step
\* of processPRBatch that creates a row creates it pending and starts no generation
C14_NewRowStartsPending ==
  [][\A id \in PRIds :
       (pc = "batch" /\ db[id] = NoRow /\ db'[id] # NoRow)
         => (db'[id].status = "pending" /\ id \notin SeqIds(cur'))]_vars

\* C15: the sweep of closed PRs deletes every row whose PR the remote reports as not
\* open and removes the file its artifact_path names; a row whose open-check fails,
\* like the row of an open PR, is left as it was with its file, and the rows after it
\* are still swept
C15_ClosedRowsSwept ==
  [][(pc = "cleanup" /\ pc' = "outdated") =>
       \A id \in PRIds :
         IF db[id] # NoRow /\ id \notin sweep'.failed /\ ~remote[id].open
         THEN db'[id] = NoRow /\ (db[id].path => file'[id] = 0)
         ELSE db'[id] = db[id] /\ file'[id] = file[id]]_vars

\* C15 witness: one sweep removed the row of a closed PR and kept the row of another
\* closed PR whose open-check failed
C15_Witness ==
  /\ pc = "outdated" /\ sweep.removed # {}
  /\ \E id \in sweep.failed : ~remote[id].open /\ db[id] # NoRow /\ db[id].status = "completed"
  /\ \E id \in sweep.removed : file[id] = 0

\* a step of poll's step 8 (the loop over allPRs that writes the fetched review data)
ReviewDataStep ==
  /\ pc \in {"reviewdata", "reviewwrite"}
  /\ pc' \in {"reviewdata", "reviewwrite", "select"}
  /\ <<pc', k'>> # <<pc, k>>

\* a PR of step 8's list whose repository's review query failed
RepoFetchFailed(id) == id \in SeqIds(allPRs) /\ RepoOf(id) \notin fetchOk

\* a PR of step 8's list whose repository's review query succeeded
RepoFetchOk(id) == id \in SeqIds(allPRs) /\ RepoOf(id) \in fetchOk

\* C16: when the batched review fetch failed for a repository, step 8 leaves the rows
\* of that repository as they were, review data included, while it writes the fetched
\* review data to the rows of the repositories whose fetch succeeded: each write is
\* for such a row and stores the fetched value, and when the loop ends every such row
\* holds it
C16_FailedRepoKeepsReviewData ==
  [][ReviewDataStep =>
       /\ \A id \in PRIds : RepoFetchFailed(id) => db'[id] = db[id]
       /\ pc = "reviewwrite"
            => /\ RepoFetchOk(allPRs[k].id)
               /\ db'[allPRs[k].id].rev = reviewDataMap[allPRs[k].id]
       /\ pc' = "select"
            => \A id \in PRIds :
                 (db[id] # NoRow /\ RepoFetchOk(id)) => db[id].rev = reviewDataMap[id]]_vars

\* C16 witness: at the end of step 8 the row of a repository whose fetch failed still
\* holds its earlier review data although the PR has been reviewed since, and the row
\* of another repository holds the review data just fetched
C16_Witness ==
  /\ pc = "reviewdata" /\ k > Len(allPRs)
  /\ \E id \in PRIds :
       RepoFetchFailed(id) /\ db[id] # NoRow /\ db[id].rev # remote[id].rev
  /\ \E id \in PRIds :
       RepoFetchOk(id) /\ db[id] # NoRow /\ db[id].rev = reviewDataMap[id] /\ db[id].rev > 0

\* row id is in error and its last generation began no more than 2 minutes ago
\* (generating_since is written by SetPRGenerating alone and kept by UpdatePRStatus),
\* so the row entered error less than 5 minutes ago
FreshError(d, id) ==
  /\ d[id] # NoRow /\ d[id].status = "error"
  /\ d[id].gs # Null /\ d[id].gs <= StaleMinutes

\* C17: a row that entered error less than 5 minutes ago is not retried: no step
\* resets it to pending or starts a generation for it
C17_ErrorRowWaitsFiveMinutes ==
  [][\A id \in PRIds :
       FreshError(db, id)
         => (db'[id] = NoRow \/ db'[id].status \notin {"pending", "generating"})]_vars


\* C18: processPRBatch hands to the generator only PRs whose row is pending when the
\* batch is filtered: no PR whose row is in error, generating or completed with its
\* artifact file present is put in prsToReview
C18_OnlyPendingRowsHandedOver ==
  [][(pc = "batch" /\ pc' = "start") =>
       \A i \in 1..Len(cur') :
         db[cur'[i].id] # NoRow => db[cur'[i].id].status = "pending"]_vars

\* C19: a step 8 write, made for a PR whose repository's review fetch succeeded,
\* leaves the row's draft flag equal to the draft value the remote reports for the PR,
\* whether the searches returned the PR or it was added from the store's rows
C19_DraftRefreshedFromRemote ==
  [][(pc = "reviewwrite" /\ pc' = "reviewdata")
       => db'[allPRs[k].id].draft = remote[allPRs[k].id].draft]_vars

\* row id is completed and the file its artifact_path names does not exist
ArtifactMissing(d, f, id) ==
  /\ d[id] # NoRow /\ d[id].status = "completed"
  /\ d[id].path /\ f[id] = 0

RECURSIVE BatchIds(_)
\* the identities of the PRs in the batches of bs
BatchIds(bs) == IF Len(bs) = 0 THEN {} ELSE SeqIds(Head(bs)) \cup BatchIds(Tail(bs))

\* C20: a pass detects every completed row whose artifact file does not exist, whether
\* a remote search returned its PR or not: when poll has made up its lists of PRs to
\* process, every such row's PR is in them, so that processPRBatch, the one place that
\* looks for the file, finds the file missing and has the review made again
C20_MissingArtifactDetected ==
  [][(pc = "select" /\ pc' \in {"batch", "done"}) =>
       \A id \in PRIds : ArtifactMissing(db, file, id) => id \in BatchIds(todo')]_vars

\* C21: a well-formed delete request for an identity that has no row is answered with
\* success and leaves every row (and every file) as it was; as the store is unchanged,
\* the same request made again is answered the same way
C21_DeleteAbsentIsNoOp ==
  [][\A id \in PRIds, method \in {"POST", "DELETE"} :
       (db[id] = NoRow /\ DeleteRequest(method, TRUE, id))
         => (resp' = StatusOK /\ db' = db /\ file' = file)]_vars

\* C21 witness: before the first pass, with no row in the store, two delete requests
\* have been answered with success
C21_Witness ==
  /\ pcLoop = "initial" /\ \A id \in PRIds : db[id] = NoRow
  /\ events = 2 /\ trigCalls = 2 /\ resp = StatusOK

\* C22: a well-formed delete request for an existing identity removes the row and the
\* file its artifact_path names, leaves every other row and file as they were, is
\* answered with success and calls Trigger() once (one manual tick is pending after it);
\* a request with a wrong method or an undecodable body is answered with a client error,
\* changes neither store nor files and calls no Trigger()
C22_DeleteRequestEffects ==
  [][\A id \in PRIds, method \in Methods, decodes \in BOOLEAN :
       DeleteRequest(method, decodes, id) =>
         IF method \in {"POST", "DELETE"} /\ decodes
         THEN /\ resp' = StatusOK
              /\ db'[id] = NoRow
              /\ (db[id] # NoRow /\ db[id].path) => file'[id] = 0
              /\ \A o \in PRIds \ {id} : db'[o] = db[o] /\ file'[o] = file[o]
              /\ trigCalls' = Min(trigCalls + 1, MaxTrigCalls)
              /\ triggerChan' = 1
         ELSE /\ resp' \in {StatusBadRequest, StatusMethodNotAllowed}
              /\ UNCHANGED <<db, file, triggerChan, trigCalls, owed>>]_vars

\* C22 witness: the row of a task of the running batch, completed with its artifact,
\* was removed with its file by a delete request, which called Trigger(); a request
\* with a wrong method or an undecodable body came next and called none
C22_Witness ==
  /\ pc = "batchend" /\ Len(cur) = 1 /\ outcome[1] = "ok"
  /\ db[cur[1].id] = NoRow /\ file[cur[1].id] = 0
  /\ events = 2 /\ trigCalls = 1 /\ triggerChan = 1
  /\ resp \in {StatusBadRequest, StatusMethodNotAllowed}

\* C23: no row's persisted notes value is longer than 15 characters
C23_NotesBound ==
  \A id \in PRIds : db[id] # NoRow => Len(db[id].notes) <= NotesMax

\* C23 witness: a row that was given more than 15 characters holds 15 of them, and has
\* since been claimed for generation
C23_Witness ==
  \E id \in PRIds :
    /\ db[id] # NoRow
    /\ db[id].status = "generating"
    /\ db[id].notes = NoteOfLen(NotesMax)
    /\ Len(notesArg) > NotesMax

\* C24: an update of the notes with more than 15 characters is rejected and leaves the
\* store unchanged
C24_OverlongRejected ==
  [][\A id \in PRIds, n \in (NotesMax + 1)..MaxNoteLen :
       UpdateNotesCall(id, NoteOfLen(n)) => db' = db]_vars

\* C26: at every instant at or after the ticker's start, GetSecondsUntilNextPoll is
\* ceil(elapsed / P) * P - elapsed in whole seconds, also when elapsed is a multiple of P
C26_CeilFormula ==
  [][CountdownQuery =>
       seconds' = SecondsToCeilTick(tickerStartTime, clock, pollingInterval)]_vars

\* C26 (amended): GetSecondsUntilNextPoll is ceil(elapsed / P) * P - elapsed in whole
\* seconds when elapsed is not a multiple of P and P in whole seconds when it is; it is
\* never negative, never more than P, and 0 before the ticker's start is recorded
C26_CountdownValue ==
  [][CountdownQuery =>
       /\ seconds' >= 0
       /\ seconds' * UnitsPerSecond <= pollingInterval
       /\ tickerStartTime = Null => seconds' = 0
       /\ tickerStartTime # Null =>
            LET elapsed == clock - tickerStartTime
                up == ((elapsed + pollingInterval - 1) \div pollingInterval) * pollingInterval
            IN  seconds' = IF elapsed % pollingInterval = 0
                           THEN pollingInterval \div UnitsPerSecond
                           ELSE (up - elapsed) \div UnitsPerSecond]_vars

\* C26 witness: asked two whole intervals after the ticker's start, the countdown is a
\* whole interval
C26_Witness ==
  /\ tickerStartTime # Null
  /\ askedAt = tickerStartTime + 2 * pollingInterval
  /\ pollingInterval >= UnitsPerSecond
  /\ seconds = pollingInterval \div UnitsPerSecond

\* C27: GetRateLimitInfo is called at most once in any 30 seconds, also when two status
\* requests both find the cache empty or expired
C27_OneProbePerWindow ==
  [][\A r \in Requests, ok \in BOOLEAN :
       StatusRefresh(r, ok) => (sinceProbe = Null \/ sinceProbe >= RateLimitCacheSeconds)]_vars

\* C28: a task that the monitor killed after more than 5 minutes has its row in status
\* error when its batch has been processed
C28_KilledTaskEndsInError ==
  pc = "batchend" =>
    \A i \in 1..Len(cur) :
      (outcome[i] = "killed" /\ db[cur[i].id] # NoRow) => db[cur[i].id].status = "error"

\* the monitor kills the running task that has run for more than 5 minutes at its
\* firing, and leaves the others alone
MonitorKillsOnlyOverHard ==
  [][MonitorFire =>
       /\ (cmd.st = "running" /\ cbprElapsed + MonitorSeconds > HardSeconds) => cmd'.st = "killed"
       /\ (cbprElapsed + MonitorSeconds <= HardSeconds) => (cmd' = cmd /\ cbprPID' = cbprPID)]_vars

\* C25: two listings of the same rows are in the same order
C25_ListingDeterministic ==
  (listing # <<>> /\ listingB # <<>>) => listing = listingB

\* every listing holds every row once, in the order of the three sort keys
ListingSortedByKeys ==
  listing # <<>> =>
    /\ \A id \in DOMAIN listStore : \E i \in DOMAIN listing : listing[i] = id
    /\ Len(listing) = Len(listStore)
    /\ \A i, j \in DOMAIN listing :
         SortsBefore(listStore[listing[i]], listStore[listing[j]]) => i < j

\* the row of id is completed at the PR's current head with its artifact in place, and
\* the PR is open: nothing is pending, in error or stale for it
Settled(id) ==
  /\ db[id] # NoRow
  /\ remote[id].open
  /\ db[id].status = "completed"
  /\ db[id].sha = remote[id].head
  /\ db[id].path
  /\ file[id] # 0

\* what the pass has fetched for id is what the row already holds
NoChangeFound(id) ==
  (pc = "reviewwrite" /\ allPRs[k].id = id) =>
    /\ existing = db[id]
    /\ reviewDataMap[id] = db[id].rev
    /\ allPRs[k].draft = db[id].draft

\* C30: a pass that finds nothing changed for a settled row performs no store write
\* for it after the closure sweep
C30_QuietPassWritesNothing ==
  [][\A id \in PRIds :
       (Settled(id) /\ NoChangeFound(id)) => ~(ReviewDataWrite /\ allPRs[k].id = id)]_vars

\* a pass that finds nothing changed for a settled row leaves the row and its artifact
\* as they are
QuietPassKeepsRows ==
  [][\A id \in PRIds :
       (Settled(id) /\ NoChangeFound(id) /\ PassStepOk) =>
         (db'[id] = db[id] /\ file'[id] = file[id])]_vars

\* the row of id is pending
PendingRow(d, id) == d[id] # NoRow /\ d[id].status = "pending"

\* C29: when a search fails (its list is then empty, as when it returns nothing) the
\* pass goes on: the search is only reached through the outdated detection, the
\* review-data refresh gets every row of the store, every pending row is put in a
\* batch of the pass and is claimed for generation when its batch begins
C29_SearchFailureKeepsPass ==
  [][/\ (pc' = "search" /\ pc # "search") => CheckForOutdatedReviews
     /\ (FetchPRs /\ (reviewPRs' = <<>> \/ myPRs' = <<>>)) =>
          /\ pc' \in {"reviewdata", "select"}
          /\ pc' = "reviewdata" => {id \in PRIds : db[id] # NoRow} \subseteq SeqIds(allPRs')
     /\ (SelectTasks /\ (reviewPRs = <<>> \/ myPRs = <<>>)) =>
          /\ \A id \in PRIds :
               PendingRow(db, id) =>
                 \E b \in 1..Len(todo') : \E i \in 1..Len(todo'[b]) :
                   todo'[b][i] = Task(id, db[id].sha, FALSE)
          /\ (\E id \in PRIds : PendingRow(db, id)) => pc' = "batch"
     /\ BatchBegin =>
          \A i \in 1..Len(Head(todo)) :
            PendingRow(db, Head(todo)[i].id) => db'[Head(todo)[i].id].status = "generating"]_vars

\* C29 witness: both searches gave nothing while PR 1 is open, and the pending row of
\* PR 1, reset after a push, has been claimed for generation in that pass
C29_Witness ==
  /\ pc = "start"
  /\ remote[1].open /\ remote[1].head = 2
  /\ reviewPRs = <<Task(1, 2, FALSE)>> /\ myPRs = <<>>
  /\ cur = <<Task(1, 2, FALSE)>>
  /\ db[1] # NoRow /\ db[1].status = "generating" /\ db[1].sha = 2

\* C31: a task whose generator could not be started has its row in status error when
\* processPRBatch returns
C31_UnstartedTaskEndsInError ==
  pc = "batchend" =>
    \A i \in 1..Len(cur) :
      (outcome[i] = "nostart" /\ db[cur[i].id] # NoRow) => db[cur[i].id].status = "error"

\* when processPRBatch returns, no identity it marked generating is still generating
BatchLeavesNoGenerating ==
  pc = "batchend" =>
    \A i \in 1..Len(cur) :
      db[cur[i].id] # NoRow => db[cur[i].id].status # "generating"

\* the age bonus of a PR that is days old
AgeBonus(days) ==
  IF days >= 4 THEN 50 ELSE IF days = 3 THEN 30 ELSE IF days = 2 THEN 20
  ELSE IF days = 1 THEN 10 ELSE 0

OutdatedRow(row, head) ==
  [status |-> "pending", sha |-> head, path |-> FALSE, lra |-> Null, gs |-> Null,
   rev |-> row.rev, draft |-> row.draft, notes |-> row.notes]

\* C33: step 5 turns every completed or generating row whose fetched head differs from
\* the stored one into the pending row at the remote head with artifact path, review
\* time and generation start cleared, and removes the artifact file the row names;
\* every other row and its file are as they were
C33_OutdatedStep ==
  [][CheckForOutdatedReviews =>
       \A id \in PRIds :
         IF /\ db[id] # NoRow
            /\ db[id].status \in {"completed", "generating"}
            /\ id \notin sweep'.failed
            /\ remote[id].head # db[id].sha
         THEN /\ db'[id] = OutdatedRow(db[id], remote[id].head)
              /\ db[id].path => file'[id] = 0
         ELSE db'[id] = db[id] /\ file'[id] = file[id]]_vars

\* C33 witness: step 5 has just reset one row, which is pending at the remote head with
\* its file gone, and has left alone a completed row whose head fetch failed
C33_Witness ==
  /\ pc = "search"
  /\ \E id \in sweep.removed :
       /\ db[id].status = "pending" /\ db[id].sha = remote[id].head
       /\ ~db[id].path /\ db[id].gs = Null /\ file[id] = 0
  /\ \E id \in sweep.failed :
       db[id].status = "completed" /\ db[id].sha # remote[id].head /\ file[id] # 0

\* C34: every store write that records the outcome of a generator task (the writes of
\* generateReviewsBatch after Wait and of processPRBatch's file check) is made while the
\* task's identity is in the live-tasks table
C34_OutcomeWrittenWhileTracked ==
  [][\A id \in PRIds :
       /\ (AfterWait /\ db'[id] # db[id]) => activeReviews[id] # 0
       /\ (PostBatch /\ outcome[idx] # "nostart" /\ db'[id] # db[id])
            => activeReviews[id] # 0]_vars

RECURSIVE Flatten(_)
\* the PRs of a sequence of processed sub-batches, in order
Flatten(done) == IF Len(done) = 0 THEN <<>> ELSE Head(done).prs \o Flatten(Tail(done))

\* the processed sub-batches of one repository
DoneOf(repo) == SelectSeq(grpDone, LAMBDA b : b.prs[1].repo = repo)

\* C36: every sub-batch handed to processPRBatch has between 1 and 5 PRs, all of one
\* repository; the sub-batches of a group are consecutive, and once the loops are over
\* they hold every PR of each group exactly once and in the order of the list, whether
\* or not some sub-batch returned an error
C36_SubBatches ==
  /\ \A i \in 1..Len(grpDone) :
       /\ Len(grpDone[i].prs) \in 1..5
       /\ \A j \in 1..Len(grpDone[i].prs) : grpDone[i].prs[j].repo = grpDone[i].prs[1].repo
  /\ \A i, j \in 1..Len(grpDone) :
       (i < j /\ grpDone[i].prs[1].repo = grpDone[j].prs[1].repo)
         => \A m \in i..j : grpDone[m].prs[1].repo = grpDone[i].prs[1].repo
  /\ \A repo \in Repos :
       LET got == Flatten(DoneOf(repo))
           want == RepoGroup(grpIn, repo)
       IN /\ Len(got) <= Len(want)
          /\ got = SubSeq(want, 1, Len(got))
          /\ (grpLeft = {} /\ grpCur = <<>>) => got = want

\* C36 witness: a group of six PRs was processed in a sub-batch of five that returned
\* an error and a sub-batch of one after it, and the loops are over
C36_Witness ==
  /\ grpLeft = {} /\ grpCur = <<>>
  /\ \E i \in 1..Len(grpDone) :
       /\ i < Len(grpDone)
       /\ Len(grpDone[i].prs) = 5 /\ grpDone[i].err
       /\ Len(grpDone[i + 1].prs) = 1
       /\ grpDone[i + 1].prs[1].repo = grpDone[i].prs[1].repo
  /\ \E a, b \in 1..Len(grpIn) : grpIn[a] # grpIn[b]

\* the identities whose generator process is alive
LiveTasks == {id \in PRIds : running[id] > 0}

\* C37: at most one generator process is alive at any moment, it is the process of the
\* task generateReviewsBatch is waiting for and its pid is the one in cbprPID; cbprPID
\* is 0 or the pid of that task, and 0 when no task has been started and not yet waited
\* for
C37_OneGenerator ==
  /\ Cardinality(LiveTasks) <= 1
  /\ \A id \in PRIds : running[id] <= 1
  /\ \A id \in LiveTasks : cmd.id = id /\ cmd.st = "running" /\ cbprPID = PidOf(id)
  /\ cbprPID # 0 => (cmd.st # "none" /\ cbprPID = PidOf(cmd.id))

\* C37 witness: the task of a later sub-batch is alive and in the slot after the
\* monitor killed the task of an earlier one
C37_Witness ==
  /\ pc = "wait" /\ monitorLog = "kill"
  /\ LiveTasks = {cmd.id} /\ cbprPID = PidOf(cmd.id)
  /\ \E id \in PRIds \ {cmd.id} : db[id] # NoRow /\ db[id].status \in {"error", "completed"}

\* C38: the list of PRs processPRBatch hands to generateReviewsBatch holds no identity
\* twice, so that a pass starts the generator at most once for a PR
C38_NoIdentityTwice ==
  \A i, j \in 1..Len(cur) : i # j => cur[i].id # cur[j].id

\* C39: the in-progress flag is set only while a pass is running; when a pass ends, by
\* returning or by a panic inside poll, the flag is cleared; and a startPoll call made
\* when no pass is running starts a pass
C39_FlagFollowsPass ==
  /\ [](polling => passes >= 1)
  /\ [][(PollFinish \/ PollPanic) => ~polling']_vars
  /\ [][(StartPollCall /\ passes = 0) => (polling' /\ passes' = 1 /\ pc' = "heal")]_vars

\* C39 witness: a pass has completed a review and returned, a delete request was served
\* (the one event so far, so no pass ended in a panic), and a trigger handled after the
\* pass has started a new one
C39_Witness ==
  /\ pc = "heal" /\ polling /\ passes = 1
  /\ events = 1 /\ resp = StatusOK /\ triggerChan = 0 /\ tickerC = 0
  /\ \E id \in PRIds : db[id] # NoRow /\ db[id].status = "completed"

\* C40: a row that does not exist is created only by processPRBatch marking a selected
\* PR generating; the completion upserts of generateReviewsBatch and of processPRBatch's
\* file check and the review-data upsert of step 8 create no row
C40_OnlySelectionCreatesRows ==
  [][\A id \in PRIds : (db[id] = NoRow /\ db'[id] # NoRow) => BatchBegin]_vars

====
